---- MODULE Spec2Model ----
(***************************************************************************)
(* Model of the anki-drive-sdk message codec (src/src/protocol.rs).        *)
(*                                                                         *)
(* A byte buffer is a sequence of 0..255.  A message is a record whose     *)
(* "type" field names the Rust struct and whose other fields are the       *)
(* struct's fields.  An f32 is carried as its IEEE-754 bit pattern, the    *)
(* tuple of its four bytes (most significant first): the codec only moves  *)
(* the four bytes.                                                         *)
(* A Result is a record [ok, err, val, n] (decode) or [ok, err, n, data]   *)
(* (encode), err being the scroll::Error variant.                          *)
(***************************************************************************)
EXTENDS Integers, Sequences, FiniteSets, TLC

VARIABLES
    op,     \* name of the last call made by the caller
    ctx,    \* scroll::Endian given to the last call ("BE" or "LE")
    src,    \* input buffer of the last decode / from-byte call
    obj,    \* the message value the caller holds (constructed or decoded)
    arg,    \* the value moved into the last call (encode's self, append's config)
    dst,    \* destination buffer before the last encode call
    out,    \* destination buffer after the last encode call
    res,    \* Result returned by the last encode / decode call
    ret,    \* plain u8 returned by the last call (append, into-byte)
    made,   \* history: the constructor (or decoder) that produced the held message
    hist    \* history: the light configurations added to the held pattern, in order
            \* (for a set-speed message: the two arguments of its constructor)

vars == <<op, ctx, src, obj, arg, dst, out, res, ret, made, hist>>

(***************************************************************************)
(* Bounds of the model.                                                    *)
(***************************************************************************)
\* Buffers of every length 0..MaxBufLen are tried (one more than the 20-byte maximum).
MaxBufLen == 21

Byte == 0..255
Endian == {"BE", "LE"}

\* Buffer contents: byte i (0-based) of a filled buffer is (seed + i * stride) % 256.
Fills == { <<0, 0>>, <<255, 0>>, <<1, 17>> }

FillBuf(n, f) == [i \in 1..n |-> (f[1] + (i - 1) * f[2]) % 256]

\* The buffer of length n (n >= 2) filled by f whose first two bytes are b0 and b1.
Framed(n, b0, b1, f) == [i \in 1..n |-> IF i = 1 THEN b0 ELSE IF i = 2 THEN b1 ELSE FillBuf(n, f)[i]]

(***************************************************************************)
(* Size constants.                                                         *)
(***************************************************************************)
ANKI_VEHICLE_MSG_MAX_SIZE == 20
ANKI_VEHICLE_MSG_PAYLOAD_MAX_SIZE == 18
ANKI_VEHICLE_MSG_BASE_SIZE == 2
ANKI_VEHICLE_MSG_VERSION_RESPONSE_SIZE == 4
ANKI_VEHICLE_MSG_BATTERY_LEVEL_RESPONSE_SIZE == 4
ANKI_VEHICLE_MSG_SDK_MODE_SIZE == 4
ANKI_VEHICLE_MSG_SET_SPEED_SIZE == 7
ANKI_VEHICLE_MSG_TURN_SIZE == 4
ANKI_VEHICLE_MSG_SET_OFFSET_FROM_ROAD_CENTRE_SIZE == 6
ANKI_VEHICLE_MSG_CHANGE_LANE_SIZE == 12
ANKI_VEHICLE_MSG_LOCALISATION_POSITION_UPDATE_SIZE == 17
ANKI_VEHICLE_MSG_LOCALISATION_TRANSITION_UPDATE_SIZE == 18
ANKI_VEHICLE_MSG_LOCALISATION_INTERSECTION_UPDATE_SIZE == 13
ANKI_VEHICLE_MSG_OFFSET_FROM_ROAD_CENTRE_UPDATE_SIZE == 7
ANKI_VEHICLE_MSG_SET_LIGHTS_SIZE == 3
LIGHT_CHANNEL_COUNT_MAX == 3
ANKI_VEHICLE_LIGHT_CONFIG_SIZE == 5
ANKI_VEHICLE_MSG_LIGHTS_PATTERN_SIZE == (LIGHT_CHANNEL_COUNT_MAX * ANKI_VEHICLE_LIGHT_CONFIG_SIZE) + 3
ANKI_VEHICLE_MSG_SET_CONFIG_PARAMS_SIZE == 4

(***************************************************************************)
(* enum AnkiVehicleMsgType (#[repr(u8)], TryFromPrimitive, IntoPrimitive). *)
(***************************************************************************)
AnkiVehicleMsgType ==
    [ Unknown                           |-> 0,
      C2VDisconnect                     |-> 13,
      C2CPingRequest                    |-> 22,
      V2CPingResponse                   |-> 23,
      C2VVersionRequest                 |-> 24,
      V2CVersionResponse                |-> 25,
      C2VBatteryLevelRequest            |-> 26,
      V2CBatteryLevelResponse           |-> 27,
      C2VSetLights                      |-> 29,
      C2VSetSpeed                       |-> 36,
      C2VChangeLane                     |-> 37,
      C2VCancelLaneChange               |-> 38,
      V2CLocalisationPositionUpdate     |-> 39,
      V2CLocalisationTransitionUpdate   |-> 41,
      V2CLocalisationIntersectionUpdate |-> 42,
      V2CVehicleDelocalized             |-> 43,
      C2VSetOffsetFromRoadCentre        |-> 44,
      V2COffsetFromRoadCentreUpdate     |-> 45,
      C2VTurn                           |-> 50,
      C2VLightsPattern                  |-> 51,
      C2VSetConfigParams                |-> 69,
      C2VSDKMode                        |-> 144 ]

MsgTypeVariants == DOMAIN AnkiVehicleMsgType

\* The derived TryFrom<u8>: Ok(variant) for a discriminant of the enum, Err otherwise.
MsgType_try_from(b) ==
    IF \E t \in MsgTypeVariants : AnkiVehicleMsgType[t] = b
    THEN [ok |-> TRUE, v |-> CHOOSE t \in MsgTypeVariants : AnkiVehicleMsgType[t] = b]
    ELSE [ok |-> FALSE, v |-> "Err"]

\* Mutant of from_byte: the fallback is another variant.
MutFromByteFallbackPing(b) ==
    IF MsgType_try_from(b).ok THEN MsgType_try_from(b).v ELSE "C2CPingRequest"

\* .try_into().unwrap_or_else(|_| AnkiVehicleMsgType::Unknown)
from_byte(b) ==
    IF MsgType_try_from(b).ok THEN MsgType_try_from(b).v ELSE "Unknown"

\* Mutant of to_byte: two variants share a code.
MutToByteOffByOne(t) ==
    IF t = "V2CVehicleDelocalized" THEN AnkiVehicleMsgType["V2CLocalisationIntersectionUpdate"]
    ELSE AnkiVehicleMsgType[t]

\* self.msg_id.try_into().unwrap_or_else(|_| AnkiVehicleMsgType::Unknown.into()):
\* the derived Into<u8> is total, so this is the variant's discriminant.
to_byte(t) ==
    AnkiVehicleMsgType[t]

(***************************************************************************)
(* enum IntersectionCode.                                                  *)
(***************************************************************************)
IntersectionCode ==
    [ None |-> 0, EntryFirst |-> 1, ExitFirst |-> 2, EntrySecond |-> 3, ExitSecond |-> 4 ]

\* Mutant of IntersectionCode_from_byte: the fallback is another variant.
MutIntersectionFallbackExitSecond(b) ==
    IF \E c \in DOMAIN IntersectionCode : IntersectionCode[c] = b
    THEN CHOOSE c \in DOMAIN IntersectionCode : IntersectionCode[c] = b
    ELSE "ExitSecond"

\* .try_into().unwrap_or_else(|_| IntersectionCode::None)
IntersectionCode_from_byte(b) ==
    IF \E c \in DOMAIN IntersectionCode : IntersectionCode[c] = b
    THEN CHOOSE c \in DOMAIN IntersectionCode : IntersectionCode[c] = b
    ELSE "None"

(***************************************************************************)
(* Results.                                                                *)
(***************************************************************************)
NoObj == [type |-> "None"]
NoRes == [ok |-> FALSE, err |-> "NoCall", n |-> 0]

\* scroll::Error::Custom(..): the size-mismatch error of every length check.
SizeMismatch == "Custom"

DecodeErr(e) == [ok |-> FALSE, err |-> e, val |-> NoObj, n |-> 0]
DecodeOk(v, n) == [ok |-> TRUE, err |-> "None", val |-> v, n |-> n]

(***************************************************************************)
(* scroll::Pread::gread_with on a byte slice, threaded through a reader    *)
(* state [data, off, ok, err, v]: a failed read is kept (the ? operator).  *)
(***************************************************************************)
Reader(data) == [data |-> data, off |-> 0, ok |-> TRUE, err |-> "None", v |-> 0]

Width(kind) ==
    CASE kind = "u8" -> 1 [] kind = "i8" -> 1
      [] kind = "u16" -> 2 [] kind = "i16" -> 2
      [] kind = "f32" -> 4 [] kind = "u32" -> 4

\* The unsigned number held by bytes data[off+1 .. off+w] in byte order e (w <= 2).
RECURSIVE UIntAt(_, _, _, _)
UIntAt(data, off, w, e) ==
    IF w = 0 THEN 0
    ELSE IF e = "BE"
         THEN UIntAt(data, off, w - 1, e) * 256 + data[off + w]
         ELSE data[off + 1] + 256 * UIntAt(data, off + 1, w - 1, e)

Signed(u, w) == IF u >= 2 ^ (8 * w - 1) THEN u - 2 ^ (8 * w) ELSE u

Reverse(s) == [i \in 1..Len(s) |-> s[Len(s) + 1 - i]]

\* A 32-bit value (f32 bit pattern, u32) is the tuple of its four bytes, most
\* significant first; 8- and 16-bit values are integers.
ValueAt(data, off, kind, e) ==
    IF kind \in {"f32", "u32"}
    THEN IF e = "BE" THEN SubSeq(data, off + 1, off + 4)
                     ELSE Reverse(SubSeq(data, off + 1, off + 4))
    ELSE IF kind \in {"i8", "i16"}
         THEN Signed(UIntAt(data, off, Width(kind), e), Width(kind))
         ELSE UIntAt(data, off, Width(kind), e)

\* gread_with::<T>(offset, ctx): BadOffset when offset >= len, TooBig when the
\* value does not fit in the rest, else the value, and offset advanced.
gread_with(r, kind, e) ==
    IF ~r.ok THEN r
    ELSE IF r.off >= Len(r.data) THEN [r EXCEPT !.ok = FALSE, !.err = "BadOffset"]
    ELSE IF Width(kind) > Len(r.data) - r.off THEN [r EXCEPT !.ok = FALSE, !.err = "TooBig"]
    ELSE [r EXCEPT !.v = ValueAt(r.data, r.off, kind, e), !.off = r.off + Width(kind)]

\* gread_with::<&[u8]>(offset, n): the next n bytes.
gread_bytes(r, n) ==
    IF ~r.ok THEN r
    ELSE IF r.off >= Len(r.data) THEN [r EXCEPT !.ok = FALSE, !.err = "BadOffset"]
    ELSE IF n > Len(r.data) - r.off THEN [r EXCEPT !.ok = FALSE, !.err = "TooBig"]
    ELSE [r EXCEPT !.v = SubSeq(r.data, r.off + 1, r.off + n), !.off = r.off + n]

(***************************************************************************)
(* Decoders: impl TryFromCtx<Endian> for ...                               *)
(***************************************************************************)
\* Mutant of the envelope decoder: a buffer of the maximum size is refused.
MutEnvelopeRejectsMaxSize(data, e) ==
    IF Len(data) >= ANKI_VEHICLE_MSG_MAX_SIZE THEN DecodeErr(SizeMismatch)
    ELSE LET r1 == gread_with(Reader(data), "u8", e)
             r2 == gread_with(r1, "u8", e)
             r3 == IF Len(data) > ANKI_VEHICLE_MSG_BASE_SIZE
                   THEN gread_bytes(r2, Len(data) - 2)
                   ELSE IF r2.ok THEN [r2 EXCEPT !.v = <<>>] ELSE r2
         IN  IF ~r3.ok THEN DecodeErr(r3.err)
             ELSE DecodeOk([type |-> "AnkiVehicleMsg",
                            size |-> r1.v,
                            msg_id |-> from_byte(r2.v),
                            payload |-> r3.v], r3.off)

\* Mutant of the envelope decoder: the payload is read one byte short.
MutEnvelopePayloadShort(data, e) ==
    IF Len(data) > ANKI_VEHICLE_MSG_MAX_SIZE THEN DecodeErr(SizeMismatch)
    ELSE LET r1 == gread_with(Reader(data), "u8", e)
             r2 == gread_with(r1, "u8", e)
             r3 == IF Len(data) > ANKI_VEHICLE_MSG_BASE_SIZE
                   THEN gread_bytes(r2, Len(data) - 3)
                   ELSE IF r2.ok THEN [r2 EXCEPT !.v = <<>>] ELSE r2
         IN  IF ~r3.ok THEN DecodeErr(r3.err)
             ELSE DecodeOk([type |-> "AnkiVehicleMsg",
                            size |-> r1.v,
                            msg_id |-> from_byte(r2.v),
                            payload |-> r3.v], r3.off)

\* impl TryFromCtx for AnkiVehicleMsg (the envelope).
AnkiVehicleMsg_try_from_ctx(data, e) ==
    IF Len(data) > ANKI_VEHICLE_MSG_MAX_SIZE THEN DecodeErr(SizeMismatch)
    ELSE LET r1 == gread_with(Reader(data), "u8", e)
             r2 == gread_with(r1, "u8", e)
             r3 == IF Len(data) > ANKI_VEHICLE_MSG_BASE_SIZE
                   THEN gread_bytes(r2, Len(data) - 2)
                   ELSE IF r2.ok THEN [r2 EXCEPT !.v = <<>>] ELSE r2
         IN  IF ~r3.ok THEN DecodeErr(r3.err)
             ELSE DecodeOk([type |-> "AnkiVehicleMsg",
                            size |-> r1.v,
                            msg_id |-> from_byte(r2.v),
                            payload |-> r3.v], r3.off)

\* Mutant of the version-response decoder: the length check is "at least".
MutVersionResponseAtLeast(data, e) ==
    IF Len(data) < ANKI_VEHICLE_MSG_VERSION_RESPONSE_SIZE THEN DecodeErr(SizeMismatch)
    ELSE LET r1 == gread_with(Reader(data), "u8", e)
             r2 == gread_with(r1, "u8", e)
             r3 == gread_with(r2, "u16", e)
         IN  IF ~r3.ok THEN DecodeErr(r3.err)
             ELSE DecodeOk([type |-> "AnkiVehicleMsgVersionResponse",
                            size |-> r1.v,
                            msg_id |-> from_byte(r2.v),
                            version |-> r3.v], r3.off)

\* impl TryFromCtx for AnkiVehicleMsgVersionResponse.
AnkiVehicleMsgVersionResponse_try_from_ctx(data, e) ==
    IF Len(data) # ANKI_VEHICLE_MSG_VERSION_RESPONSE_SIZE THEN DecodeErr(SizeMismatch)
    ELSE LET r1 == gread_with(Reader(data), "u8", e)
             r2 == gread_with(r1, "u8", e)
             r3 == gread_with(r2, "u16", e)
         IN  IF ~r3.ok THEN DecodeErr(r3.err)
             ELSE DecodeOk([type |-> "AnkiVehicleMsgVersionResponse",
                            size |-> r1.v,
                            msg_id |-> from_byte(r2.v),
                            version |-> r3.v], r3.off)

\* Mutant of the battery-level decoder: the level is always read high byte first.
MutBatteryLevelHighFirst(data, e) ==
    IF Len(data) # ANKI_VEHICLE_MSG_BATTERY_LEVEL_RESPONSE_SIZE THEN DecodeErr(SizeMismatch)
    ELSE LET r1 == gread_with(Reader(data), "u8", e)
             r2 == gread_with(r1, "u8", e)
             r3 == gread_with(r2, "u16", "BE")
         IN  IF ~r3.ok THEN DecodeErr(r3.err)
             ELSE DecodeOk([type |-> "AnkiVehicleMsgBatteryLevelResponse",
                            size |-> r1.v,
                            msg_id |-> from_byte(r2.v),
                            battery_level |-> r3.v], r3.off)

\* impl TryFromCtx for AnkiVehicleMsgBatteryLevelResponse.
AnkiVehicleMsgBatteryLevelResponse_try_from_ctx(data, e) ==
    IF Len(data) # ANKI_VEHICLE_MSG_BATTERY_LEVEL_RESPONSE_SIZE THEN DecodeErr(SizeMismatch)
    ELSE LET r1 == gread_with(Reader(data), "u8", e)
             r2 == gread_with(r1, "u8", e)
             r3 == gread_with(r2, "u16", e)
         IN  IF ~r3.ok THEN DecodeErr(r3.err)
             ELSE DecodeOk([type |-> "AnkiVehicleMsgBatteryLevelResponse",
                            size |-> r1.v,
                            msg_id |-> from_byte(r2.v),
                            battery_level |-> r3.v], r3.off)

\* impl TryFromCtx for AnkiVehicleMsgLocalisationPositionUpdate.
AnkiVehicleMsgLocalisationPositionUpdate_try_from_ctx(data, e) ==
    IF Len(data) # ANKI_VEHICLE_MSG_LOCALISATION_POSITION_UPDATE_SIZE THEN DecodeErr(SizeMismatch)
    ELSE LET r1  == gread_with(Reader(data), "u8", e)
             r2  == gread_with(r1, "u8", e)
             r3  == gread_with(r2, "u8", e)
             r4  == gread_with(r3, "u8", e)
             r5  == gread_with(r4, "f32", e)
             r6  == gread_with(r5, "u16", e)
             r7  == gread_with(r6, "u8", e)
             r8  == gread_with(r7, "u8", e)
             r9  == gread_with(r8, "u8", e)
             r10 == gread_with(r9, "u16", e)
             r11 == gread_with(r10, "u16", e)
         IN  IF ~r11.ok THEN DecodeErr(r11.err)
             ELSE DecodeOk([type |-> "AnkiVehicleMsgLocalisationPositionUpdate",
                            size |-> r1.v,
                            msg_id |-> from_byte(r2.v),
                            location_id |-> r3.v,
                            road_piece_id |-> r4.v,
                            offset_from_road_centre_mm |-> r5.v,
                            speed_mm_per_sec |-> r6.v,
                            parsing_flags |-> r7.v,
                            last_recv_lane_change_cmd_id |-> r8.v,
                            last_exec_lane_change_cmd_id |-> r9.v,
                            last_desired_lane_change_speed_mm_per_sec |-> r10.v,
                            last_desired_speed_mm_per_sec |-> r11.v], r11.off)

\* impl TryFromCtx for AnkiVehicleMsgLocalisationTransitionUpdate.
AnkiVehicleMsgLocalisationTransitionUpdate_try_from_ctx(data, e) ==
    IF Len(data) # ANKI_VEHICLE_MSG_LOCALISATION_TRANSITION_UPDATE_SIZE THEN DecodeErr(SizeMismatch)
    ELSE LET r1  == gread_with(Reader(data), "u8", e)
             r2  == gread_with(r1, "u8", e)
             r3  == gread_with(r2, "i8", e)
             r4  == gread_with(r3, "i8", e)
             r5  == gread_with(r4, "f32", e)
             r6  == gread_with(r5, "u8", e)
             r7  == gread_with(r6, "u8", e)
             r8  == gread_with(r7, "u16", e)
             r9  == gread_with(r8, "i8", e)
             r10 == gread_with(r9, "u8", e)
             r11 == gread_with(r10, "u8", e)
             r12 == gread_with(r11, "u8", e)
             r13 == gread_with(r12, "u8", e)
             r14 == gread_with(r13, "u8", e)
         IN  IF ~r14.ok THEN DecodeErr(r14.err)
             ELSE DecodeOk([type |-> "AnkiVehicleMsgLocalisationTransitionUpdate",
                            size |-> r1.v,
                            msg_id |-> from_byte(r2.v),
                            road_piece_idx |-> r3.v,
                            road_piece_idx_prev |-> r4.v,
                            offset_from_road_centre_mm |-> r5.v,
                            last_recv_lane_change_id |-> r6.v,
                            last_exec_lane_change_id |-> r7.v,
                            last_desired_lane_change_speed_mm_per_sec |-> r8.v,
                            ave_follow_line_drift_pixels |-> r9.v,
                            had_lane_change_activity |-> r10.v,
                            uphill_counter |-> r11.v,
                            downhill_counter |-> r12.v,
                            left_wheel_dist_cm |-> r13.v,
                            right_wheel_dist_cm |-> r14.v], r14.off)

\* impl TryFromCtx for AnkiVehicleMsgLocalisationIntersectionUpdate.
AnkiVehicleMsgLocalisationIntersectionUpdate_try_from_ctx(data, e) ==
    IF Len(data) # ANKI_VEHICLE_MSG_LOCALISATION_INTERSECTION_UPDATE_SIZE THEN DecodeErr(SizeMismatch)
    ELSE LET r1 == gread_with(Reader(data), "u8", e)
             r2 == gread_with(r1, "u8", e)
             r3 == gread_with(r2, "i8", e)
             r4 == gread_with(r3, "f32", e)
             r5 == gread_with(r4, "u8", e)
             r6 == gread_with(r5, "u8", e)
             r7 == gread_with(r6, "u16", e)
             r8 == gread_with(r7, "u16", e)
         IN  IF ~r8.ok THEN DecodeErr(r8.err)
             ELSE DecodeOk([type |-> "AnkiVehicleMsgLocalisationIntersectionUpdate",
                            size |-> r1.v,
                            msg_id |-> from_byte(r2.v),
                            road_piece_idx |-> r3.v,
                            offset_from_road_centre_mm |-> r4.v,
                            intersection_code |-> IntersectionCode_from_byte(r5.v),
                            is_exiting |-> r6.v,
                            mm_since_last_transition_bar |-> r7.v,
                            mm_since_last_intersection_code |-> r8.v], r8.off)

\* Mutant of the offset-from-road-centre decoder: lane_change_id is not read.
MutOffsetUpdateSkipsLastField(data, e) ==
    IF Len(data) # ANKI_VEHICLE_MSG_OFFSET_FROM_ROAD_CENTRE_UPDATE_SIZE THEN DecodeErr(SizeMismatch)
    ELSE LET r1 == gread_with(Reader(data), "u8", e)
             r2 == gread_with(r1, "u8", e)
             r3 == gread_with(r2, "f32", e)
         IN  IF ~r3.ok THEN DecodeErr(r3.err)
             ELSE DecodeOk([type |-> "AnkiVehicleMsgOffsetFromRoadCentreUpdate",
                            size |-> r1.v,
                            msg_id |-> from_byte(r2.v),
                            offset_from_road_centre_mm |-> r3.v,
                            lane_change_id |-> 0], r3.off)

\* impl TryFromCtx for AnkiVehicleMsgOffsetFromRoadCentreUpdate.
AnkiVehicleMsgOffsetFromRoadCentreUpdate_try_from_ctx(data, e) ==
    IF Len(data) # ANKI_VEHICLE_MSG_OFFSET_FROM_ROAD_CENTRE_UPDATE_SIZE THEN DecodeErr(SizeMismatch)
    ELSE LET r1 == gread_with(Reader(data), "u8", e)
             r2 == gread_with(r1, "u8", e)
             r3 == gread_with(r2, "f32", e)
             r4 == gread_with(r3, "u8", e)
         IN  IF ~r4.ok THEN DecodeErr(r4.err)
             ELSE DecodeOk([type |-> "AnkiVehicleMsgOffsetFromRoadCentreUpdate",
                            size |-> r1.v,
                            msg_id |-> from_byte(r2.v),
                            offset_from_road_centre_mm |-> r3.v,
                            lane_change_id |-> r4.v], r4.off)

(***************************************************************************)
(* scroll::Pwrite::gwrite_with on a byte slice, threaded through a writer  *)
(* state [data, off, ok, err]: bytes written before a failure stay written.*)
(***************************************************************************)
Writer(data) == [data |-> data, off |-> 0, ok |-> TRUE, err |-> "None"]

EncodeErr(e, data) == [ok |-> FALSE, err |-> e, n |-> 0, data |-> data]

\* Ok(*offset) after the last write, or the first error.
Finish(w) == [ok |-> w.ok, err |-> w.err, n |-> IF w.ok THEN w.off ELSE 0, data |-> w.data]

Unsigned(v, w) == IF v < 0 THEN v + 2 ^ (8 * w) ELSE v

\* The bytes of value v of the given kind in byte order e.
BytesOf(kind, v, e) ==
    IF kind \in {"f32", "u32"}
    THEN IF e = "BE" THEN v ELSE Reverse(v)
    ELSE LET u == Unsigned(v, Width(kind))
             be == [i \in 1..Width(kind) |-> (u \div (256 ^ (Width(kind) - i))) % 256]
         IN  IF e = "BE" THEN be ELSE Reverse(be)

Overwrite(data, off, bytes) ==
    [i \in 1..Len(data) |->
        IF i > off /\ i <= off + Len(bytes) THEN bytes[i - off] ELSE data[i]]

\* gwrite_with::<&[u8]>(bytes, offset, ()): BadOffset when offset >= len, TooBig
\* when the bytes do not fit in the rest, else the bytes copied, offset advanced.
gwrite_bytes(w, bytes) ==
    IF ~w.ok THEN w
    ELSE IF w.off >= Len(w.data) THEN [w EXCEPT !.ok = FALSE, !.err = "BadOffset"]
    ELSE IF Len(bytes) > Len(w.data) - w.off THEN [w EXCEPT !.ok = FALSE, !.err = "TooBig"]
    ELSE [w EXCEPT !.data = Overwrite(w.data, w.off, bytes), !.off = w.off + Len(bytes)]

\* gwrite_with::<T>(v, offset, ctx) for a scalar T.
gwrite_with(w, kind, v, e) == gwrite_bytes(w, BytesOf(kind, v, e))

(***************************************************************************)
(* The enums written by the encoders (#[repr(u8)], IntoPrimitive).         *)
(***************************************************************************)
VehicleTurn == [ None |-> 0, Left |-> 1, Right |-> 2, UTurn |-> 3, UTurnJump |-> 4 ]

VehicleTurnTrigger == [ Immediate |-> 0, Intersection |-> 1 ]

TrackMaterial == [ Plastic |-> 0, Vinyl |-> 1 ]

LightChannel ==
    [ Red |-> 0, Tail |-> 1, Blue |-> 2, Green |-> 3, FrontL |-> 4, FrontR |-> 5, Count |-> 6 ]

LightEffect ==
    [ Steady |-> 0, Fade |-> 1, Throb |-> 2, Flash |-> 3, Random |-> 4, Count |-> 5 ]

(***************************************************************************)
(* Encoders: impl TryIntoCtx<Endian> for ...                               *)
(***************************************************************************)
\* Mutant of the envelope encoder: a one-byte payload is not written.
MutEnvelopeSkipsShortPayload(self, data, e) ==
    IF Len(data) # ANKI_VEHICLE_MSG_BASE_SIZE + Len(self.payload)
    THEN EncodeErr(SizeMismatch, data)
    ELSE LET w1 == gwrite_with(Writer(data), "u8", self.size, e)
             w2 == gwrite_with(w1, "u8", to_byte(self.msg_id), e)
             w3 == IF Len(self.payload) > 1 THEN gwrite_bytes(w2, self.payload) ELSE w2
         IN  Finish(w3)

\* Mutant of the envelope encoder: the size byte is recomputed from the buffer length.
MutEnvelopeSizeFromBuffer(self, data, e) ==
    IF Len(data) # ANKI_VEHICLE_MSG_BASE_SIZE + Len(self.payload)
    THEN EncodeErr(SizeMismatch, data)
    ELSE LET w1 == gwrite_with(Writer(data), "u8", Len(data) - 1, e)
             w2 == gwrite_with(w1, "u8", to_byte(self.msg_id), e)
             w3 == IF Len(self.payload) > 0 THEN gwrite_bytes(w2, self.payload) ELSE w2
         IN  Finish(w3)

\* Mutant of the envelope encoder: the tag is written before the size byte.
MutEnvelopeTagFirst(self, data, e) ==
    IF Len(data) # ANKI_VEHICLE_MSG_BASE_SIZE + Len(self.payload)
    THEN EncodeErr(SizeMismatch, data)
    ELSE LET w1 == gwrite_with(Writer(data), "u8", to_byte(self.msg_id), e)
             w2 == gwrite_with(w1, "u8", self.size, e)
             w3 == IF Len(self.payload) > 0 THEN gwrite_bytes(w2, self.payload) ELSE w2
         IN  Finish(w3)

\* impl TryIntoCtx for AnkiVehicleMsg (the envelope).
AnkiVehicleMsg_try_into_ctx(self, data, e) ==
    IF Len(data) # ANKI_VEHICLE_MSG_BASE_SIZE + Len(self.payload)
    THEN EncodeErr(SizeMismatch, data)
    ELSE LET w1 == gwrite_with(Writer(data), "u8", self.size, e)
             w2 == gwrite_with(w1, "u8", to_byte(self.msg_id), e)
             w3 == IF Len(self.payload) > 0 THEN gwrite_bytes(w2, self.payload) ELSE w2
         IN  Finish(w3)

\* impl TryIntoCtx for AnkiVehicleMsgSdkMode (its check names the battery-level constant).
AnkiVehicleMsgSdkMode_try_into_ctx(self, data, e) ==
    IF Len(data) # ANKI_VEHICLE_MSG_BATTERY_LEVEL_RESPONSE_SIZE
    THEN EncodeErr(SizeMismatch, data)
    ELSE LET w1 == gwrite_with(Writer(data), "u8", self.size, e)
             w2 == gwrite_with(w1, "u8", to_byte(self.msg_id), e)
             w3 == gwrite_with(w2, "u8", self.on, e)
             w4 == gwrite_with(w3, "u8", self.flags, e)
         IN  Finish(w4)

\* Mutant of the set-speed encoder: the length check is "at least".
MutSetSpeedAtLeast(self, data, e) ==
    IF Len(data) < ANKI_VEHICLE_MSG_SET_SPEED_SIZE
    THEN EncodeErr(SizeMismatch, data)
    ELSE LET w1 == gwrite_with(Writer(data), "u8", self.size, e)
             w2 == gwrite_with(w1, "u8", to_byte(self.msg_id), e)
             w3 == gwrite_with(w2, "i16", self.speed_mm_per_sec, e)
             w4 == gwrite_with(w3, "i16", self.accel_mm_per_sec2, e)
             w5 == gwrite_with(w4, "u8", self.respect_road_piece_speed_limit, e)
         IN  Finish(w5)

\* Mutant of the set-speed encoder: acceleration is written before speed.
MutSetSpeedSwapsFields(self, data, e) ==
    IF Len(data) # ANKI_VEHICLE_MSG_SET_SPEED_SIZE
    THEN EncodeErr(SizeMismatch, data)
    ELSE LET w1 == gwrite_with(Writer(data), "u8", self.size, e)
             w2 == gwrite_with(w1, "u8", to_byte(self.msg_id), e)
             w3 == gwrite_with(w2, "i16", self.accel_mm_per_sec2, e)
             w4 == gwrite_with(w3, "i16", self.speed_mm_per_sec, e)
             w5 == gwrite_with(w4, "u8", self.respect_road_piece_speed_limit, e)
         IN  Finish(w5)

\* impl TryIntoCtx for AnkiVehicleMsgSetSpeed.
AnkiVehicleMsgSetSpeed_try_into_ctx(self, data, e) ==
    IF Len(data) # ANKI_VEHICLE_MSG_SET_SPEED_SIZE
    THEN EncodeErr(SizeMismatch, data)
    ELSE LET w1 == gwrite_with(Writer(data), "u8", self.size, e)
             w2 == gwrite_with(w1, "u8", to_byte(self.msg_id), e)
             w3 == gwrite_with(w2, "i16", self.speed_mm_per_sec, e)
             w4 == gwrite_with(w3, "i16", self.accel_mm_per_sec2, e)
             w5 == gwrite_with(w4, "u8", self.respect_road_piece_speed_limit, e)
         IN  Finish(w5)

\* impl TryIntoCtx for AnkiVehicleMsgTurn.
AnkiVehicleMsgTurn_try_into_ctx(self, data, e) ==
    IF Len(data) # ANKI_VEHICLE_MSG_TURN_SIZE
    THEN EncodeErr(SizeMismatch, data)
    ELSE LET w1 == gwrite_with(Writer(data), "u8", self.size, e)
             w2 == gwrite_with(w1, "u8", to_byte(self.msg_id), e)
             w3 == gwrite_with(w2, "u8", VehicleTurn[self.turn_type], e)
             w4 == gwrite_with(w3, "u8", VehicleTurnTrigger[self.trigger], e)
         IN  Finish(w4)

\* impl TryIntoCtx for AnkiVehicleMsgSetOffsetFromRoadCentre.
AnkiVehicleMsgSetOffsetFromRoadCentre_try_into_ctx(self, data, e) ==
    IF Len(data) # ANKI_VEHICLE_MSG_SET_OFFSET_FROM_ROAD_CENTRE_SIZE
    THEN EncodeErr(SizeMismatch, data)
    ELSE LET w1 == gwrite_with(Writer(data), "u8", self.size, e)
             w2 == gwrite_with(w1, "u8", to_byte(self.msg_id), e)
             w3 == gwrite_with(w2, "f32", self.offset_mm, e)
         IN  Finish(w3)

\* impl TryIntoCtx for AnkiVehicleMsgChangeLane.
\* Mutant of the change-lane encoder: the offset is always written low byte
\* first, whatever the endianness.
MutChangeLaneFloatLowFirst(self, data, e) ==
    IF Len(data) # ANKI_VEHICLE_MSG_CHANGE_LANE_SIZE
    THEN EncodeErr(SizeMismatch, data)
    ELSE LET w1 == gwrite_with(Writer(data), "u8", self.size, e)
             w2 == gwrite_with(w1, "u8", to_byte(self.msg_id), e)
             w3 == gwrite_with(w2, "u16", self.horizontal_speed_mm_per_sec, e)
             w4 == gwrite_with(w3, "u16", self.horizontal_accel_mm_per_sec2, e)
             w5 == gwrite_with(w4, "f32", self.offset_from_road_centre_mm, "LE")
             w6 == gwrite_with(w5, "u8", self.hop_intent, e)
             w7 == gwrite_with(w6, "u8", self.tag, e)
         IN  Finish(w7)

AnkiVehicleMsgChangeLane_try_into_ctx(self, data, e) ==
    IF Len(data) # ANKI_VEHICLE_MSG_CHANGE_LANE_SIZE
    THEN EncodeErr(SizeMismatch, data)
    ELSE LET w1 == gwrite_with(Writer(data), "u8", self.size, e)
             w2 == gwrite_with(w1, "u8", to_byte(self.msg_id), e)
             w3 == gwrite_with(w2, "u16", self.horizontal_speed_mm_per_sec, e)
             w4 == gwrite_with(w3, "u16", self.horizontal_accel_mm_per_sec2, e)
             w5 == gwrite_with(w4, "f32", self.offset_from_road_centre_mm, e)
             w6 == gwrite_with(w5, "u8", self.hop_intent, e)
             w7 == gwrite_with(w6, "u8", self.tag, e)
         IN  Finish(w7)

\* Mutant of the set-lights encoder: the size byte is written before the length
\* is checked.
MutSetLightsWritesFirst(self, data, e) ==
    LET w1 == gwrite_with(Writer(data), "u8", self.size, e)
    IN  IF Len(data) # ANKI_VEHICLE_MSG_SET_LIGHTS_SIZE
        THEN EncodeErr(SizeMismatch, w1.data)
        ELSE LET w2 == gwrite_with(w1, "u8", to_byte(self.msg_id), e)
                 w3 == gwrite_with(w2, "u8", self.light_mask, e)
             IN  Finish(w3)

\* impl TryIntoCtx for AnkiVehicleMsgSetLights.
AnkiVehicleMsgSetLights_try_into_ctx(self, data, e) ==
    IF Len(data) # ANKI_VEHICLE_MSG_SET_LIGHTS_SIZE
    THEN EncodeErr(SizeMismatch, data)
    ELSE LET w1 == gwrite_with(Writer(data), "u8", self.size, e)
             w2 == gwrite_with(w1, "u8", to_byte(self.msg_id), e)
             w3 == gwrite_with(w2, "u8", self.light_mask, e)
         IN  Finish(w3)

\* Mutant of the light-configuration encoder: no upper limit on the destination.
MutLightConfigNoUpperLimit(self, data, e) ==
    IF Len(data) < ANKI_VEHICLE_LIGHT_CONFIG_SIZE
    THEN EncodeErr(SizeMismatch, data)
    ELSE LET w1 == gwrite_with(Writer(data), "u8", LightChannel[self.channel], e)
             w2 == gwrite_with(w1, "u8", LightEffect[self.effect], e)
             w3 == gwrite_with(w2, "u8", self.start, e)
             w4 == gwrite_with(w3, "u8", self.end, e)
             w5 == gwrite_with(w4, "u8", self.cycles_per_10_sec, e)
         IN  Finish(w5)

\* Mutant of the light-configuration encoder: only a 5-byte destination is accepted.
MutLightConfigExactSize(self, data, e) ==
    IF Len(data) # ANKI_VEHICLE_LIGHT_CONFIG_SIZE
    THEN EncodeErr(SizeMismatch, data)
    ELSE LET w1 == gwrite_with(Writer(data), "u8", LightChannel[self.channel], e)
             w2 == gwrite_with(w1, "u8", LightEffect[self.effect], e)
             w3 == gwrite_with(w2, "u8", self.start, e)
             w4 == gwrite_with(w3, "u8", self.end, e)
             w5 == gwrite_with(w4, "u8", self.cycles_per_10_sec, e)
         IN  Finish(w5)

\* Mutant of the light-configuration encoder: the rest of the destination is cleared.
MutLightConfigClearsRest(self, data, e) ==
    IF Len(data) < ANKI_VEHICLE_LIGHT_CONFIG_SIZE \/ Len(data) > ANKI_VEHICLE_MSG_MAX_SIZE
    THEN EncodeErr(SizeMismatch, data)
    ELSE LET w1 == gwrite_with(Writer(data), "u8", LightChannel[self.channel], e)
             w2 == gwrite_with(w1, "u8", LightEffect[self.effect], e)
             w3 == gwrite_with(w2, "u8", self.start, e)
             w4 == gwrite_with(w3, "u8", self.end, e)
             w5 == gwrite_with(w4, "u8", self.cycles_per_10_sec, e)
             w6 == [w5 EXCEPT !.data = [i \in 1..Len(data) |-> IF i > 5 THEN 0 ELSE w5.data[i]]]
         IN  Finish(w6)

\* impl TryIntoCtx for &AnkiVehicleLightConfig.
AnkiVehicleLightConfig_try_into_ctx(self, data, e) ==
    IF Len(data) < ANKI_VEHICLE_LIGHT_CONFIG_SIZE \/ Len(data) > ANKI_VEHICLE_MSG_MAX_SIZE
    THEN EncodeErr(SizeMismatch, data)
    ELSE LET w1 == gwrite_with(Writer(data), "u8", LightChannel[self.channel], e)
             w2 == gwrite_with(w1, "u8", LightEffect[self.effect], e)
             w3 == gwrite_with(w2, "u8", self.start, e)
             w4 == gwrite_with(w3, "u8", self.end, e)
             w5 == gwrite_with(w4, "u8", self.cycles_per_10_sec, e)
         IN  Finish(w5)

\* data.gwrite_with::<&AnkiVehicleLightConfig>(c, offset, ctx): the nested encoder
\* is given the rest of the buffer, data[offset..].
gwrite_light_config(w, c, e) ==
    IF ~w.ok THEN w
    ELSE IF w.off >= Len(w.data) THEN [w EXCEPT !.ok = FALSE, !.err = "BadOffset"]
    ELSE LET r == AnkiVehicleLightConfig_try_into_ctx(c, SubSeq(w.data, w.off + 1, Len(w.data)), e)
             written == SubSeq(w.data, 1, w.off) \o r.data
         IN  IF r.ok THEN [w EXCEPT !.data = written, !.off = w.off + r.n]
             ELSE [w EXCEPT !.ok = FALSE, !.err = r.err, !.data = written]

\* Option<AnkiVehicleLightConfig>
OptNone == [some |-> FALSE]
OptSome(c) == [some |-> TRUE, v |-> c]

Zeros(n) == [i \in 1..n |-> 0]

\* Mutant of the slot loop: an empty slot is skipped, not zero-filled.
RECURSIVE MutWriteChannelConfigsSkipNone(_, _, _, _)
MutWriteChannelConfigsSkipNone(w, channel_config, i, e) ==
    IF i >= LIGHT_CHANNEL_COUNT_MAX THEN w
    ELSE LET config == channel_config[i + 1]
             w1 == IF config.some
                   THEN gwrite_light_config(w, config.v, e)
                   ELSE IF w.ok THEN [w EXCEPT !.off = w.off + ANKI_VEHICLE_LIGHT_CONFIG_SIZE] ELSE w
         IN  MutWriteChannelConfigsSkipNone(w1, channel_config, i + 1, e)

\* The body of the slot loop: match config { None => five zero bytes, Some(c) =>
\* the nested encoder on the rest of the buffer }.
WriteSlot(w, config, e) ==
    IF config.some
    THEN gwrite_light_config(w, config.v, e)
    ELSE gwrite_bytes(w, Zeros(ANKI_VEHICLE_LIGHT_CONFIG_SIZE))

\* for i in 0..LIGHT_CHANNEL_COUNT_MAX { match self.channel_config.get(i) ... }
RECURSIVE WriteChannelConfigs(_, _, _, _)
WriteChannelConfigs(w, channel_config, i, e) ==
    IF i >= LIGHT_CHANNEL_COUNT_MAX THEN w
    ELSE WriteChannelConfigs(WriteSlot(w, channel_config[i + 1], e), channel_config, i + 1, e)

\* The three writes before the slot loop: size, msg_id, channel_count.
WritePatternHeader(self, data, e) ==
    LET w1 == gwrite_with(Writer(data), "u8", self.size, e)
        w2 == gwrite_with(w1, "u8", to_byte(self.msg_id), e)
    IN  gwrite_with(w2, "u8", self.channel_count, e)

\* impl TryIntoCtx for AnkiVehicleMsgLightsPattern.
AnkiVehicleMsgLightsPattern_try_into_ctx(self, data, e) ==
    IF Len(data) # ANKI_VEHICLE_MSG_LIGHTS_PATTERN_SIZE
    THEN EncodeErr(SizeMismatch, data)
    ELSE Finish(WriteChannelConfigs(WritePatternHeader(self, data, e),
                                    self.channel_config, 0, e))

\* impl TryIntoCtx for AnkiVehicleMsgSetConfigParams.
AnkiVehicleMsgSetConfigParams_try_into_ctx(self, data, e) ==
    IF Len(data) # ANKI_VEHICLE_MSG_SET_CONFIG_PARAMS_SIZE
    THEN EncodeErr(SizeMismatch, data)
    ELSE LET w1 == gwrite_with(Writer(data), "u8", self.size, e)
             w2 == gwrite_with(w1, "u8", to_byte(self.msg_id), e)
             w3 == gwrite_with(w2, "u8", self.super_code_parse_mask, e)
             w4 == gwrite_with(w3, "u8", TrackMaterial[self.track_material], e)
         IN  Finish(w4)

(***************************************************************************)
(* Constructors.                                                           *)
(***************************************************************************)
\* `x as u8`
AsU8(x) == x % 256

anki_vehicle_msg_set_sdk_mode(on, flags) ==
    [ type |-> "AnkiVehicleMsgSdkMode",
      size |-> AsU8(ANKI_VEHICLE_MSG_SDK_MODE_SIZE) - 1,
      msg_id |-> "C2VSDKMode",
      on |-> on,
      flags |-> flags ]

anki_vehicle_msg_set_speed(speed_mm_per_sec, accel_mm_per_sec2) ==
    [ type |-> "AnkiVehicleMsgSetSpeed",
      size |-> AsU8(ANKI_VEHICLE_MSG_SET_SPEED_SIZE) - 1,
      msg_id |-> "C2VSetSpeed",
      speed_mm_per_sec |-> speed_mm_per_sec,
      accel_mm_per_sec2 |-> accel_mm_per_sec2,
      respect_road_piece_speed_limit |-> 0 ]

anki_vehicle_msg_set_offset_from_road_centre(offset_mm) ==
    [ type |-> "AnkiVehicleMsgSetOffsetFromRoadCentre",
      size |-> AsU8(ANKI_VEHICLE_MSG_SET_OFFSET_FROM_ROAD_CENTRE_SIZE) - 1,
      msg_id |-> "C2VSetOffsetFromRoadCentre",
      offset_mm |-> offset_mm ]

anki_vehicle_msg_change_lane(horizontal_speed_mm_per_sec, horizontal_accel_mm_per_sec2, offset_from_road_centre_mm) ==
    [ type |-> "AnkiVehicleMsgChangeLane",
      size |-> AsU8(ANKI_VEHICLE_MSG_CHANGE_LANE_SIZE) - 1,
      msg_id |-> "C2VChangeLane",
      horizontal_speed_mm_per_sec |-> horizontal_speed_mm_per_sec,
      horizontal_accel_mm_per_sec2 |-> horizontal_accel_mm_per_sec2,
      offset_from_road_centre_mm |-> offset_from_road_centre_mm,
      hop_intent |-> 0,
      tag |-> 0 ]

\* Mutant of the set-lights constructor: size is the whole length.
MutSetLightsSizeIsLength(mask) ==
    [ type |-> "AnkiVehicleMsgSetLights",
      size |-> AsU8(ANKI_VEHICLE_MSG_SET_LIGHTS_SIZE),
      msg_id |-> "C2VSetLights",
      light_mask |-> mask ]

anki_vehicle_msg_set_lights(mask) ==
    [ type |-> "AnkiVehicleMsgSetLights",
      size |-> AsU8(ANKI_VEHICLE_MSG_SET_LIGHTS_SIZE) - 1,
      msg_id |-> "C2VSetLights",
      light_mask |-> mask ]

anki_vehicle_light_config(channel, effect, start, end, cycles_per_min) ==
    [ channel |-> channel,
      effect |-> effect,
      start |-> start,
      end |-> end,
      cycles_per_10_sec |-> AsU8(cycles_per_min \div 6) ]

anki_vehicle_msg_lights_pattern(channel, effect, start, end, cycles_per_min) ==
    [ type |-> "AnkiVehicleMsgLightsPattern",
      size |-> AsU8(ANKI_VEHICLE_MSG_LIGHTS_PATTERN_SIZE) - 1,
      msg_id |-> "C2VLightsPattern",
      channel_count |-> 1,
      channel_config |->
          << OptSome([ channel |-> channel,
                       effect |-> effect,
                       start |-> start,
                       end |-> end,
                       cycles_per_10_sec |-> AsU8(cycles_per_min \div 6) ]),
             OptNone,
             OptNone >> ]

\* Mutant of append: the capacity check is off by one.
MutAppendGuardOffByOne(self, config) ==
    IF self.channel_count > 3
    THEN [self |-> self, ret |-> 0]
    ELSE LET stored == [self EXCEPT !.channel_config =
                            [i \in 1..3 |-> IF i = self.channel_count + 1 THEN OptSome(config) ELSE @[i]]]
             bumped == [stored EXCEPT !.channel_count = AsU8(self.channel_count + 1)]
         IN  [self |-> bumped, ret |-> bumped.channel_count]

\* Mutant of append: a full pattern has its last slot overwritten.
MutAppendOverwritesLast(self, config) ==
    IF self.channel_count >= 3
    THEN [self |-> [self EXCEPT !.channel_config[3] = OptSome(config)], ret |-> 0]
    ELSE LET stored == [self EXCEPT !.channel_config[self.channel_count + 1] = OptSome(config)]
             bumped == [stored EXCEPT !.channel_count = AsU8(self.channel_count + 1)]
         IN  [self |-> bumped, ret |-> bumped.channel_count]

\* Mutant of append: the count is returned before it is incremented.
MutAppendReturnsOldCount(self, config) ==
    IF self.channel_count >= 3
    THEN [self |-> self, ret |-> 0]
    ELSE LET stored == [self EXCEPT !.channel_config[self.channel_count + 1] = OptSome(config)]
             bumped == [stored EXCEPT !.channel_count = AsU8(self.channel_count + 1)]
         IN  [self |-> bumped, ret |-> self.channel_count]

\* AnkiVehicleMsgLightsPattern::append(&mut self, config) -> u8: the pattern after
\* the call and the value returned.
append(self, config) ==
    IF self.channel_count >= 3
    THEN [self |-> self, ret |-> 0]
    ELSE LET stored == [self EXCEPT !.channel_config[self.channel_count + 1] = OptSome(config)]
             bumped == [stored EXCEPT !.channel_count = AsU8(self.channel_count + 1)]
         IN  [self |-> bumped, ret |-> bumped.channel_count]

anki_vehicle_msg_ping ==
    [ type |-> "AnkiVehicleMsg",
      size |-> AsU8(ANKI_VEHICLE_MSG_BASE_SIZE) - 1,
      msg_id |-> "C2CPingRequest",
      payload |-> <<>> ]

anki_vehicle_msg_disconnect ==
    [ type |-> "AnkiVehicleMsg",
      size |-> AsU8(ANKI_VEHICLE_MSG_BASE_SIZE) - 1,
      msg_id |-> "C2VDisconnect",
      payload |-> <<>> ]

anki_vehicle_msg_get_version ==
    [ type |-> "AnkiVehicleMsg",
      size |-> AsU8(ANKI_VEHICLE_MSG_BASE_SIZE) - 1,
      msg_id |-> "C2VVersionRequest",
      payload |-> <<>> ]

anki_vehicle_msg_get_battery_level ==
    [ type |-> "AnkiVehicleMsg",
      size |-> AsU8(ANKI_VEHICLE_MSG_BASE_SIZE) - 1,
      msg_id |-> "C2VBatteryLevelRequest",
      payload |-> <<>> ]

anki_vehicle_msg_cancel_lane_change ==
    [ type |-> "AnkiVehicleMsg",
      size |-> AsU8(ANKI_VEHICLE_MSG_BASE_SIZE) - 1,
      msg_id |-> "C2VCancelLaneChange",
      payload |-> <<>> ]

anki_vehicle_msg_turn(turn_type, trigger) ==
    [ type |-> "AnkiVehicleMsgTurn",
      size |-> AsU8(ANKI_VEHICLE_MSG_TURN_SIZE) - 1,
      msg_id |-> "C2VTurn",
      turn_type |-> turn_type,
      trigger |-> trigger ]

anki_vehicle_msg_turn_180 ==
    [ type |-> "AnkiVehicleMsgTurn",
      size |-> AsU8(ANKI_VEHICLE_MSG_TURN_SIZE) - 1,
      msg_id |-> "C2VTurn",
      turn_type |-> "UTurn",
      trigger |-> "Immediate" ]

anki_vehicle_msg_set_config_params(super_code_parse_mask, track_material) ==
    [ type |-> "AnkiVehicleMsgSetConfigParams",
      size |-> AsU8(ANKI_VEHICLE_MSG_SET_CONFIG_PARAMS_SIZE) - 1,
      msg_id |-> "C2VSetConfigParams",
      super_code_parse_mask |-> super_code_parse_mask,
      track_material |-> track_material ]

\* buf.gwrite_with::<T>(msg, &mut 0, ctx): the TryIntoCtx impl of the message's type.
try_into_ctx(self, data, e) ==
    CASE self.type = "AnkiVehicleMsg" -> AnkiVehicleMsg_try_into_ctx(self, data, e)
      [] self.type = "AnkiVehicleMsgSdkMode" -> AnkiVehicleMsgSdkMode_try_into_ctx(self, data, e)
      [] self.type = "AnkiVehicleMsgSetSpeed" -> AnkiVehicleMsgSetSpeed_try_into_ctx(self, data, e)
      [] self.type = "AnkiVehicleMsgTurn" -> AnkiVehicleMsgTurn_try_into_ctx(self, data, e)
      [] self.type = "AnkiVehicleMsgSetOffsetFromRoadCentre" ->
             AnkiVehicleMsgSetOffsetFromRoadCentre_try_into_ctx(self, data, e)
      [] self.type = "AnkiVehicleMsgChangeLane" -> AnkiVehicleMsgChangeLane_try_into_ctx(self, data, e)
      [] self.type = "AnkiVehicleMsgSetLights" -> AnkiVehicleMsgSetLights_try_into_ctx(self, data, e)
      [] self.type = "AnkiVehicleMsgLightsPattern" ->
             AnkiVehicleMsgLightsPattern_try_into_ctx(self, data, e)
      [] self.type = "AnkiVehicleMsgSetConfigParams" ->
             AnkiVehicleMsgSetConfigParams_try_into_ctx(self, data, e)
      [] self.type = "AnkiVehicleLightConfig" ->
             AnkiVehicleLightConfig_try_into_ctx(self.config, data, e)

\* The types with an impl TryFromCtx: the envelope and the six responses / updates.
\* The command types have none.
HasTryFromCtx ==
    { "AnkiVehicleMsg",
      "AnkiVehicleMsgVersionResponse",
      "AnkiVehicleMsgBatteryLevelResponse",
      "AnkiVehicleMsgLocalisationPositionUpdate",
      "AnkiVehicleMsgLocalisationTransitionUpdate",
      "AnkiVehicleMsgLocalisationIntersectionUpdate",
      "AnkiVehicleMsgOffsetFromRoadCentreUpdate" }

\* data.gread_with::<T>(&mut 0, ctx) for the type named t; a type without an impl
\* TryFromCtx has no decoder to call ("NoImpl").
try_from_ctx(t, data, e) ==
    CASE t = "AnkiVehicleMsg" -> AnkiVehicleMsg_try_from_ctx(data, e)
      [] t = "AnkiVehicleMsgVersionResponse" -> AnkiVehicleMsgVersionResponse_try_from_ctx(data, e)
      [] t = "AnkiVehicleMsgBatteryLevelResponse" ->
             AnkiVehicleMsgBatteryLevelResponse_try_from_ctx(data, e)
      [] t = "AnkiVehicleMsgLocalisationPositionUpdate" ->
             AnkiVehicleMsgLocalisationPositionUpdate_try_from_ctx(data, e)
      [] t = "AnkiVehicleMsgLocalisationTransitionUpdate" ->
             AnkiVehicleMsgLocalisationTransitionUpdate_try_from_ctx(data, e)
      [] t = "AnkiVehicleMsgLocalisationIntersectionUpdate" ->
             AnkiVehicleMsgLocalisationIntersectionUpdate_try_from_ctx(data, e)
      [] t = "AnkiVehicleMsgOffsetFromRoadCentreUpdate" ->
             AnkiVehicleMsgOffsetFromRoadCentreUpdate_try_from_ctx(data, e)
      [] t \notin HasTryFromCtx -> DecodeErr("NoImpl")

(***************************************************************************)
(* Inputs tried by the caller.                                             *)
(***************************************************************************)
AssignedCodes == { AnkiVehicleMsgType[t] : t \in MsgTypeVariants \ {"Unknown"} }

\* Tag bytes given to the concrete decoders: every code of the enum and some others.
TagSamples == AssignedCodes \cup {0, 1, 12, 28, 40, 46, 70, 127, 128, 143, 145, 255}

\* Size bytes given to the decoders: the right one for the length, and a wrong one.
SizeBytes(n) == {255} \cup (IF n > 0 THEN {n - 1} ELSE {})

I16Samples == {-32768, -1, 0, 2, 31693, 32767}
U16Samples == {0, 10, 100, 300, 2500, 65535}
U8Samples == {0, 1, 171, 255}

\* f32 bit patterns: 0.0, 20.0, 100.0, -0.0, a NaN, and one with four different bytes.
F32Samples == { <<0, 0, 0, 0>>, <<65, 160, 0, 0>>, <<66, 200, 0, 0>>,
                <<128, 0, 0, 0>>, <<127, 192, 0, 0>>, <<1, 2, 3, 4>> }

\* (channel, effect, start, end, cycles_per_min) given to the light constructors.
LightInputs ==
    { <<"Red", "Steady", 0, 0, 0>>,
      <<"Tail", "Flash", 12, 13, 600>>,
      <<"Blue", "Throb", 1, 2, 6>>,
      <<"Green", "Random", 14, 11, 1535>>,
      <<"FrontL", "Fade", 10, 11, 600>>,
      <<"FrontR", "Fade", 255, 0, 65535>>,
      <<"Count", "Count", 255, 255, 1536>> }

AppendInputs ==
    { <<"Tail", "Flash", 12, 13, 600>>,
      <<"Count", "Count", 255, 255, 1536>>,
      <<"Red", "Steady", 0, 0, 0>> }

\* Bytes tried as the intersection code of an intersection update (offset 7).
CodeBytes == {0, 1, 2, 3, 4, 5, 128, 255}

\* Envelopes the caller obtains by decoding: lengths, size bytes, tag bytes, fills.
EnvelopeLens == {0, 1, 2, 3, 4, 19, 20, 21}
EnvelopeTags == {0, 23, 25, 27, 39, 255}

\* Contents of the destination buffer before an encode: zeroed (as in the tests) or 0xEE.
DstFills == { <<0, 0>>, <<238, 0>> }

(***************************************************************************)
(* Decoding side.  The caller holds one input buffer and an endianness     *)
(* (Init draws them) and makes one call on it: the codec keeps no state.   *)
(***************************************************************************)
Init ==
    /\ op = "none" /\ obj = NoObj /\ arg = NoObj
    /\ dst = <<>> /\ out = <<>> /\ res = NoRes /\ ret = 0
    /\ made = "none" /\ hist = <<>>
    /\ ctx \in Endian
    /\ \/ \E n \in 0..MaxBufLen, b1 \in TagSamples, f \in Fills :
            \E b0 \in SizeBytes(n) : src = Framed(n, b0, b1, f)
       \/ \E b \in Byte : src = <<b>>
       \/ \E c \in CodeBytes, f \in Fills :
              src = [Framed(ANKI_VEHICLE_MSG_LOCALISATION_INTERSECTION_UPDATE_SIZE, 12,
                            AnkiVehicleMsgType["V2CLocalisationIntersectionUpdate"], f)
                        EXCEPT ![8] = c]

\* AnkiVehicleMsgType::try_from(b).unwrap_or_else(..) on the buffer's only byte, and back.
TagFromByte ==
    /\ op = "none" /\ Len(src) = 1
    /\ op' = "from_byte"
    /\ obj' = [type |-> "AnkiVehicleMsgType", v |-> from_byte(src[1])]
    /\ ret' = to_byte(from_byte(src[1]))
    /\ UNCHANGED <<ctx, src, arg, dst, out, res, made, hist>>

\* u8::from(t) of a variant t, and back.
TagIntoByte ==
    /\ op = "none" /\ src = <<>>
    /\ \E t \in MsgTypeVariants :
        /\ op' = "into_byte"
        /\ arg' = [type |-> "AnkiVehicleMsgType", v |-> t]
        /\ ret' = to_byte(t)
        /\ obj' = [type |-> "AnkiVehicleMsgType", v |-> from_byte(to_byte(t))]
    /\ UNCHANGED <<ctx, src, dst, out, res, made, hist>>

\* src.gread_with::<T>(&mut 0, ctx), r being T's try_from_ctx(src, ctx).
Decoded(name, r) ==
    /\ op = "none"
    /\ op' = name
    /\ obj' = r.val
    /\ res' = [ok |-> r.ok, err |-> r.err, n |-> r.n]
    /\ made' = (IF r.ok THEN name ELSE "none")
    /\ UNCHANGED <<ctx, src, arg, dst, out, ret, hist>>

DecodeEnvelope ==
    Decoded("AnkiVehicleMsg", AnkiVehicleMsg_try_from_ctx(src, ctx))

DecodeVersionResponse ==
    Decoded("AnkiVehicleMsgVersionResponse",
            AnkiVehicleMsgVersionResponse_try_from_ctx(src, ctx))

DecodeBatteryLevelResponse ==
    Decoded("AnkiVehicleMsgBatteryLevelResponse",
            AnkiVehicleMsgBatteryLevelResponse_try_from_ctx(src, ctx))

DecodePositionUpdate ==
    Decoded("AnkiVehicleMsgLocalisationPositionUpdate",
            AnkiVehicleMsgLocalisationPositionUpdate_try_from_ctx(src, ctx))

DecodeTransitionUpdate ==
    Decoded("AnkiVehicleMsgLocalisationTransitionUpdate",
            AnkiVehicleMsgLocalisationTransitionUpdate_try_from_ctx(src, ctx))

DecodeIntersectionUpdate ==
    Decoded("AnkiVehicleMsgLocalisationIntersectionUpdate",
            AnkiVehicleMsgLocalisationIntersectionUpdate_try_from_ctx(src, ctx))

DecodeOffsetFromRoadCentreUpdate ==
    Decoded("AnkiVehicleMsgOffsetFromRoadCentreUpdate",
            AnkiVehicleMsgOffsetFromRoadCentreUpdate_try_from_ctx(src, ctx))

Next ==
    \/ TagFromByte
    \/ TagIntoByte
    \/ DecodeEnvelope
    \/ DecodeVersionResponse
    \/ DecodeBatteryLevelResponse
    \/ DecodePositionUpdate
    \/ DecodeTransitionUpdate
    \/ DecodeIntersectionUpdate
    \/ DecodeOffsetFromRoadCentreUpdate

Spec == Init /\ [][Next]_vars

(***************************************************************************)
(* Command-building side.  The caller builds one message with a            *)
(* constructor, may append to a light pattern, and encodes the message     *)
(* into a buffer (which moves the message into the encoder).               *)
(***************************************************************************)
BuildInit ==
    /\ op = "none" /\ ctx = "BE" /\ src = <<>> /\ obj = NoObj /\ arg = NoObj
    /\ dst = <<>> /\ out = <<>> /\ res = NoRes /\ ret = 0
    /\ made = "none" /\ hist = <<>>

New(name, m) ==
    /\ op = "none"
    /\ op' = name /\ made' = name /\ obj' = m
    /\ UNCHANGED <<ctx, src, arg, dst, out, res, ret, hist>>

NewSdkMode ==
    \E on \in {0, 1}, flags \in U8Samples :
        New("anki_vehicle_msg_set_sdk_mode", anki_vehicle_msg_set_sdk_mode(on, flags))

NewSetSpeed ==
    \E s \in I16Samples, a \in I16Samples :
        /\ op = "none"
        /\ op' = "anki_vehicle_msg_set_speed"
        /\ made' = "anki_vehicle_msg_set_speed"
        /\ obj' = anki_vehicle_msg_set_speed(s, a)
        /\ hist' = <<s, a>>
        /\ UNCHANGED <<ctx, src, arg, dst, out, res, ret>>

NewSetOffsetFromRoadCentre ==
    \E o \in F32Samples :
        New("anki_vehicle_msg_set_offset_from_road_centre",
            anki_vehicle_msg_set_offset_from_road_centre(o))

NewChangeLane ==
    \E s \in U16Samples, a \in U16Samples, o \in F32Samples :
        /\ op = "none"
        /\ op' = "anki_vehicle_msg_change_lane"
        /\ made' = "anki_vehicle_msg_change_lane"
        /\ obj' = anki_vehicle_msg_change_lane(s, a, o)
        /\ hist' = <<s, a, o>>
        /\ UNCHANGED <<ctx, src, arg, dst, out, res, ret>>

NewSetLights ==
    \E mask \in U8Samples :
        New("anki_vehicle_msg_set_lights", anki_vehicle_msg_set_lights(mask))

\* The arguments of a light constructor call.
LightArgs(i) ==
    [ type |-> "args", channel |-> i[1], effect |-> i[2], start |-> i[3], end |-> i[4],
      cycles_per_min |-> i[5] ]

NewLightsPattern ==
    \E i \in LightInputs :
        /\ op = "none"
        /\ op' = "anki_vehicle_msg_lights_pattern"
        /\ made' = "anki_vehicle_msg_lights_pattern"
        /\ obj' = anki_vehicle_msg_lights_pattern(i[1], i[2], i[3], i[4], i[5])
        /\ hist' = << anki_vehicle_light_config(i[1], i[2], i[3], i[4], i[5]) >>
        /\ arg' = LightArgs(i)
        /\ UNCHANGED <<ctx, src, dst, out, res, ret>>

\* anki_vehicle_light_config called on its own; the configuration can then be
\* encoded by itself (impl TryIntoCtx for &AnkiVehicleLightConfig).
NewLightConfig ==
    \E i \in LightInputs :
        /\ op = "none"
        /\ op' = "anki_vehicle_light_config"
        /\ made' = "anki_vehicle_light_config"
        /\ obj' = [type |-> "AnkiVehicleLightConfig",
                   config |-> anki_vehicle_light_config(i[1], i[2], i[3], i[4], i[5])]
        /\ arg' = LightArgs(i)
        /\ UNCHANGED <<ctx, src, dst, out, res, ret, hist>>

\* An envelope returned by a successful decode (the other public way to get one).
NewDecodedEnvelope ==
    /\ op = "none"
    /\ \E n \in EnvelopeLens, b1 \in EnvelopeTags, f \in Fills \ {<<0, 0>>}, e \in Endian :
        \E b0 \in {n - 1, 255} :
          LET r == AnkiVehicleMsg_try_from_ctx(Framed(n, b0, b1, f), e)
          IN  /\ r.ok
              /\ op' = "AnkiVehicleMsg::try_from_ctx"
              /\ made' = "AnkiVehicleMsg::try_from_ctx"
              /\ obj' = r.val
              /\ hist' = Framed(n, b0, b1, f)
    /\ UNCHANGED <<ctx, src, arg, dst, out, res, ret>>

NewPing == New("anki_vehicle_msg_ping", anki_vehicle_msg_ping)

NewDisconnect == New("anki_vehicle_msg_disconnect", anki_vehicle_msg_disconnect)

NewGetVersion == New("anki_vehicle_msg_get_version", anki_vehicle_msg_get_version)

NewGetBatteryLevel == New("anki_vehicle_msg_get_battery_level", anki_vehicle_msg_get_battery_level)

NewCancelLaneChange == New("anki_vehicle_msg_cancel_lane_change", anki_vehicle_msg_cancel_lane_change)

NewTurn ==
    \E t \in DOMAIN VehicleTurn, g \in DOMAIN VehicleTurnTrigger :
        New("anki_vehicle_msg_turn", anki_vehicle_msg_turn(t, g))

NewTurn180 == New("anki_vehicle_msg_turn_180", anki_vehicle_msg_turn_180)

NewSetConfigParams ==
    \E mask \in U8Samples, material \in DOMAIN TrackMaterial :
        New("anki_vehicle_msg_set_config_params", anki_vehicle_msg_set_config_params(mask, material))

\* pattern.append(anki_vehicle_light_config(..)); hist keeps the first three
\* configurations the caller gave.
AppendConfig ==
    /\ obj.type = "AnkiVehicleMsgLightsPattern"
    /\ \E i \in AppendInputs :
        LET config == anki_vehicle_light_config(i[1], i[2], i[3], i[4], i[5])
            r == append(obj, config)
        IN  /\ op' = "append"
            /\ arg' = config
            /\ obj' = r.self
            /\ ret' = r.ret
            /\ hist' = IF Len(hist) < 3 THEN Append(hist, config) ELSE hist
    /\ UNCHANGED <<ctx, src, dst, out, res, made>>

\* buf.gwrite_with::<T>(msg, &mut 0, ctx) on a buffer of any length.
Encode ==
    /\ obj.type \notin {"None", "AnkiVehicleMsgType"}
    /\ \E n \in 0..MaxBufLen, f \in DstFills, e \in Endian :
        LET data == FillBuf(n, f)
            r == try_into_ctx(obj, data, e)
        IN  /\ op' = "try_into_ctx"
            /\ ctx' = e
            /\ arg' = obj
            /\ obj' = NoObj
            /\ dst' = data
            /\ out' = r.data
            /\ res' = [ok |-> r.ok, err |-> r.err, n |-> r.n]
    /\ UNCHANGED <<src, ret, made, hist>>

\* out.gread_with::<T>(&mut 0, ctx) on the bytes just encoded, T being the type of
\* the message that was encoded.
DecodeBack ==
    /\ op = "try_into_ctx" /\ res.ok
    /\ LET r == try_from_ctx(arg.type, out, ctx)
       IN  /\ op' = "decode_back"
           /\ obj' = r.val
           /\ res' = [ok |-> r.ok, err |-> r.err, n |-> r.n]
    /\ UNCHANGED <<ctx, src, arg, dst, out, ret, made, hist>>

BuildNext ==
    \/ NewSdkMode
    \/ NewSetSpeed
    \/ NewSetOffsetFromRoadCentre
    \/ NewChangeLane
    \/ NewSetLights
    \/ NewLightsPattern
    \/ NewLightConfig
    \/ NewPing
    \/ NewDisconnect
    \/ NewGetVersion
    \/ NewGetBatteryLevel
    \/ NewCancelLaneChange
    \/ NewTurn
    \/ NewTurn180
    \/ NewSetConfigParams
    \/ NewDecodedEnvelope
    \/ AppendConfig
    \/ Encode
    \/ DecodeBack

SpecBuild == BuildInit /\ [][BuildNext]_vars

(***************************************************************************)
(* advertisement.rs: the three advertisement decoders.                     *)
(***************************************************************************)
ANKI_VEHICLE_ADV_LOCAL_NAME_SIZE == 21
ANKI_VEHICLE_ADV_MFG_DATA_SIZE == 8
ANKI_VEHICLE_ADV_SIZE == 2 + ANKI_VEHICLE_ADV_MFG_DATA_SIZE + ANKI_VEHICLE_ADV_LOCAL_NAME_SIZE + 16

\* A UTF-8 continuation byte.
IsCont(b) == b >= 128 /\ b <= 191

\* core::str::from_utf8 accepts s[i..]: well-formed sequences only (no stray
\* continuation bytes, overlong forms, surrogates, or code points above U+10FFFF).
RECURSIVE Utf8From(_, _)
Utf8From(s, i) ==
    IF i > Len(s) THEN TRUE
    ELSE LET b == s[i]
             c(k) == i + k <= Len(s) /\ IsCont(s[i + k])
         IN  CASE b <= 127 -> Utf8From(s, i + 1)
               [] b >= 194 /\ b <= 223 -> c(1) /\ Utf8From(s, i + 2)
               [] b = 224 -> c(1) /\ c(2) /\ s[i + 1] >= 160 /\ Utf8From(s, i + 3)
               [] (b >= 225 /\ b <= 236) \/ b = 238 \/ b = 239 ->
                      c(1) /\ c(2) /\ Utf8From(s, i + 3)
               [] b = 237 -> c(1) /\ c(2) /\ s[i + 1] <= 159 /\ Utf8From(s, i + 3)
               [] b = 240 -> c(1) /\ c(2) /\ c(3) /\ s[i + 1] >= 144 /\ Utf8From(s, i + 4)
               [] b >= 241 /\ b <= 243 -> c(1) /\ c(2) /\ c(3) /\ Utf8From(s, i + 4)
               [] b = 244 -> c(1) /\ c(2) /\ c(3) /\ s[i + 1] <= 143 /\ Utf8From(s, i + 4)
               [] OTHER -> FALSE

from_utf8_ok(s) == Utf8From(s, 1)

\* Mutant of gread_str: the bytes are taken without being validated.
MutStrUnchecked(r, n) ==
    IF ~r.ok THEN r
    ELSE IF r.off >= Len(r.data) THEN [r EXCEPT !.ok = FALSE, !.err = "BadOffset"]
    ELSE IF n > Len(r.data) - r.off THEN [r EXCEPT !.ok = FALSE, !.err = "TooBig"]
    ELSE [r EXCEPT !.v = SubSeq(r.data, r.off + 1, r.off + n), !.off = r.off + n]

\* gread_with::<&str>(offset, StrCtx::Length(n)): the next n bytes as a string
\* (kept as its bytes); BadInput when they are not UTF-8.
gread_str(r, n) ==
    IF ~r.ok THEN r
    ELSE IF r.off >= Len(r.data) THEN [r EXCEPT !.ok = FALSE, !.err = "BadOffset"]
    ELSE IF n > Len(r.data) - r.off THEN [r EXCEPT !.ok = FALSE, !.err = "TooBig"]
    ELSE IF ~from_utf8_ok(SubSeq(r.data, r.off + 1, r.off + n))
         THEN [r EXCEPT !.ok = FALSE, !.err = "BadInput"]
    ELSE [r EXCEPT !.v = SubSeq(r.data, r.off + 1, r.off + n), !.off = r.off + n]

\* impl TryFromCtx for AnkiVehicleAdvLocalName
AnkiVehicleAdvLocalName_try_from_ctx(data, e) ==
    IF Len(data) < ANKI_VEHICLE_ADV_LOCAL_NAME_SIZE THEN DecodeErr(SizeMismatch)
    ELSE LET r1 == gread_with(Reader(data), "u8", e)
             r2 == gread_with(r1, "u16", e)
             r3 == gread_bytes(r2, 5)
             r4 == gread_str(r3, 13)
         IN  IF ~r4.ok THEN DecodeErr(r4.err)
             ELSE DecodeOk([type |-> "AnkiVehicleAdvLocalName",
                            state |-> r1.v,
                            version |-> r2.v,
                            _reserved |-> r3.v,
                            name |-> r4.v], r4.off)

\* impl TryFromCtx for AnkiVehicleAdvMfgData
AnkiVehicleAdvMfgData_try_from_ctx(data, e) ==
    IF Len(data) < ANKI_VEHICLE_ADV_MFG_DATA_SIZE THEN DecodeErr(SizeMismatch)
    ELSE LET r1 == gread_with(Reader(data), "u32", e)
             r2 == gread_with(r1, "u8", e)
             r3 == gread_with(r2, "u8", e)
             r4 == gread_with(r3, "u16", e)
         IN  IF ~r4.ok THEN DecodeErr(r4.err)
             ELSE DecodeOk([type |-> "AnkiVehicleAdvMfgData",
                            identifier |-> r1.v,
                            model_id |-> r2.v,
                            _reserved |-> r3.v,
                            product_id |-> r4.v], r4.off)

\* gread_with::<AnkiVehicleAdvMfgData>(offset, ctx): the decoder is given the rest
\* of the buffer, data[offset..], and the offset advances by what it consumed.
gread_mfg_data(r, e) ==
    IF ~r.ok THEN r
    ELSE IF r.off >= Len(r.data) THEN [r EXCEPT !.ok = FALSE, !.err = "BadOffset"]
    ELSE LET d == AnkiVehicleAdvMfgData_try_from_ctx(SubSeq(r.data, r.off + 1, Len(r.data)), e)
         IN  IF d.ok THEN [r EXCEPT !.v = d.val, !.off = r.off + d.n]
             ELSE [r EXCEPT !.ok = FALSE, !.err = d.err]

\* gread_with::<AnkiVehicleAdvLocalName>(offset, ctx), likewise.
gread_local_name(r, e) ==
    IF ~r.ok THEN r
    ELSE IF r.off >= Len(r.data) THEN [r EXCEPT !.ok = FALSE, !.err = "BadOffset"]
    ELSE LET d == AnkiVehicleAdvLocalName_try_from_ctx(SubSeq(r.data, r.off + 1, Len(r.data)), e)
         IN  IF d.ok THEN [r EXCEPT !.v = d.val, !.off = r.off + d.n]
             ELSE [r EXCEPT !.ok = FALSE, !.err = d.err]

\* Mutant of the advertisement decoder: the two sub-decoders are applied in the
\* other order.
MutAdvSubDecodersSwapped(data, e) ==
    IF Len(data) # ANKI_VEHICLE_ADV_SIZE THEN DecodeErr(SizeMismatch)
    ELSE LET r1 == gread_with(Reader(data), "u8", e)
             r2 == gread_with(r1, "u8", e)
             r3 == gread_local_name(r2, e)
             r4 == gread_mfg_data(r3, e)
             r5 == gread_bytes(r4, 16)
         IN  IF ~r5.ok THEN DecodeErr(r5.err)
             ELSE DecodeOk([type |-> "AnkiVehicleAdv",
                            flags |-> r1.v,
                            tx_power |-> r2.v,
                            mfg_data |-> r4.v,
                            local_name |-> r3.v,
                            service_id |-> r5.v], r5.off)

\* impl TryFromCtx for AnkiVehicleAdv
AnkiVehicleAdv_try_from_ctx(data, e) ==
    IF Len(data) # ANKI_VEHICLE_ADV_SIZE THEN DecodeErr(SizeMismatch)
    ELSE LET r1 == gread_with(Reader(data), "u8", e)
             r2 == gread_with(r1, "u8", e)
             r3 == gread_mfg_data(r2, e)
             r4 == gread_local_name(r3, e)
             r5 == gread_bytes(r4, 16)
         IN  IF ~r5.ok THEN DecodeErr(r5.err)
             ELSE DecodeOk([type |-> "AnkiVehicleAdv",
                            flags |-> r1.v,
                            tx_power |-> r2.v,
                            mfg_data |-> r3.v,
                            local_name |-> r4.v,
                            service_id |-> r5.v], r5.off)

\* Longest advertisement buffer tried: one byte more than a full advertisement.
MaxAdvLen == 48

\* Buffer contents tried: zeros, ascending ASCII letters, 0xff, and a ramp that
\* leaves the ASCII range.
AdvFills == { <<0, 0>>, <<65, 1>>, <<255, 0>>, <<1, 17>> }

\* 13-byte names: the one of the tests, one with two- to four-byte characters,
\* one ending in the middle of a character, one with an overlong encoding.
NameSamples ==
    { <<108, 111, 99, 97, 108, 110, 97, 109, 101, 116, 101, 115, 116>>,
      <<195, 169, 226, 130, 172, 240, 159, 154, 151, 97, 0, 0, 0>>,
      <<97, 98, 99, 100, 101, 102, 103, 104, 105, 106, 107, 108, 195>>,
      <<192, 128, 97, 97, 97, 97, 97, 97, 97, 97, 97, 97, 97>> }

\* A local-name block and a full advertisement around a name, as in the tests.
LocalNameBuf(name) == <<171, 205, 239, 1, 2, 3, 4, 5>> \o name
AdvBuf(name) ==
    <<18, 52, 137, 171, 205, 239, 171, 86, 205, 239>> \o LocalNameBuf(name)
        \o [i \in 1..16 |-> i - 1]

AdvInit ==
    /\ op = "none" /\ obj = NoObj /\ arg = NoObj
    /\ dst = <<>> /\ out = <<>> /\ res = NoRes /\ ret = 0
    /\ made = "none" /\ hist = <<>>
    /\ ctx \in Endian
    /\ \/ \E n \in 0..MaxAdvLen, f \in AdvFills : src = FillBuf(n, f)
       \/ \E name \in NameSamples, tail \in {<<>>, <<7>>} :
              src \in {LocalNameBuf(name) \o tail, AdvBuf(name) \o tail}

DecodeAdvLocalName ==
    Decoded("AnkiVehicleAdvLocalName", AnkiVehicleAdvLocalName_try_from_ctx(src, ctx))

DecodeAdvMfgData ==
    Decoded("AnkiVehicleAdvMfgData", AnkiVehicleAdvMfgData_try_from_ctx(src, ctx))

DecodeAdv ==
    Decoded("AnkiVehicleAdv", AnkiVehicleAdv_try_from_ctx(src, ctx))

AdvNext ==
    \/ DecodeAdvLocalName
    \/ DecodeAdvMfgData
    \/ DecodeAdv

SpecAdv == AdvInit /\ [][AdvNext]_vars

(***************************************************************************)
(* lib.rs: struct AnkiVehicle, configure and the process_* methods.        *)
(***************************************************************************)
ANKI_VEHICLE_SDK_OPTION_OVERRIDE_LOCALIZATION == 1

\* Mutant of configure: the SDK-mode command is pushed after the lane command.
MutConfigurePushesSdkMode(self) ==
    LET lane == AnkiVehicleMsgChangeLane_try_into_ctx(
                    anki_vehicle_msg_change_lane(300, 2500, <<0, 0, 0, 0>>),
                    Zeros(ANKI_VEHICLE_MSG_CHANGE_LANE_SIZE), "LE")
        sdk == AnkiVehicleMsgSdkMode_try_into_ctx(
                   anki_vehicle_msg_set_sdk_mode(
                       1, ANKI_VEHICLE_SDK_OPTION_OVERRIDE_LOCALIZATION),
                   Zeros(ANKI_VEHICLE_MSG_SDK_MODE_SIZE), "LE")
        commands == <<SubSeq(lane.data, 1, lane.n)>>
    IN  IF ~lane.ok THEN [panic |-> TRUE, commands |-> <<>>]
        ELSE IF self.sdk_mode_on THEN [panic |-> FALSE, commands |-> commands]
        ELSE IF ~sdk.ok THEN [panic |-> TRUE, commands |-> <<>>]
        ELSE [panic |-> FALSE, commands |-> commands \o <<SubSeq(sdk.data, 1, sdk.n)>>]

\* AnkiVehicle::configure(self) -> Vec<Vec<u8>>. pwrite_with at offset 0 hands the
\* encoder the whole zeroed array; expect() panics on an encode error.
configure(self) ==
    LET lane == AnkiVehicleMsgChangeLane_try_into_ctx(
                    anki_vehicle_msg_change_lane(300, 2500, <<0, 0, 0, 0>>),
                    Zeros(ANKI_VEHICLE_MSG_CHANGE_LANE_SIZE), "LE")
        sdk == AnkiVehicleMsgSdkMode_try_into_ctx(
                   anki_vehicle_msg_set_sdk_mode(
                       1, ANKI_VEHICLE_SDK_OPTION_OVERRIDE_LOCALIZATION),
                   Zeros(ANKI_VEHICLE_MSG_SDK_MODE_SIZE), "LE")
        commands == <<SubSeq(lane.data, 1, lane.n)>>
    IN  IF ~lane.ok THEN [panic |-> TRUE, commands |-> <<>>]
        ELSE IF self.sdk_mode_on THEN [panic |-> FALSE, commands |-> commands]
        ELSE IF ~sdk.ok THEN [panic |-> TRUE, commands |-> <<>>]
        ELSE [panic |-> FALSE, commands |-> <<SubSeq(sdk.data, 1, sdk.n)>> \o commands]

process_battery_level_response(self, data) ==
    [self EXCEPT !.battery_level = data.battery_level]

process_version_response(self, data) ==
    [self EXCEPT !.version = data.version]

process_position_update(self, data) ==
    [self EXCEPT !.location_id = data.location_id,
                 !.offset_from_road_centre_mm = data.offset_from_road_centre_mm,
                 !.speed_mm_per_sec = data.speed_mm_per_sec,
                 !.parsing_flags = data.parsing_flags,
                 !.last_desired_lane_change_speed_mm_per_sec =
                     data.last_desired_lane_change_speed_mm_per_sec,
                 !.last_desired_speed_mm_per_sec = data.last_desired_speed_mm_per_sec]

\* Mutant of process_transition_update: the offset is not taken over.
MutTransitionKeepsOffset(self, data) ==
    [self EXCEPT !.road_piece_idx = data.road_piece_idx,
                 !.road_piece_idx_prev = data.road_piece_idx_prev,
                 !.last_desired_lane_change_speed_mm_per_sec =
                     data.last_desired_lane_change_speed_mm_per_sec,
                 !.uphill_counter = data.uphill_counter,
                 !.downhill_counter = data.downhill_counter,
                 !.left_wheel_dist_cm = data.left_wheel_dist_cm,
                 !.right_wheel_dist_cm = data.right_wheel_dist_cm]

process_transition_update(self, data) ==
    [self EXCEPT !.road_piece_idx = data.road_piece_idx,
                 !.road_piece_idx_prev = data.road_piece_idx_prev,
                 !.offset_from_road_centre_mm = data.offset_from_road_centre_mm,
                 !.last_desired_lane_change_speed_mm_per_sec =
                     data.last_desired_lane_change_speed_mm_per_sec,
                 !.uphill_counter = data.uphill_counter,
                 !.downhill_counter = data.downhill_counter,
                 !.left_wheel_dist_cm = data.left_wheel_dist_cm,
                 !.right_wheel_dist_cm = data.right_wheel_dist_cm]

process_intersection_update(self, data) ==
    [self EXCEPT !.offset_from_road_centre_mm = data.offset_from_road_centre_mm,
                 !.intersection_code = data.intersection_code,
                 !.is_exiting_intersection = data.is_exiting,
                 !.mm_since_last_transition_bar = data.mm_since_last_transition_bar,
                 !.mm_since_last_intersection_code = data.mm_since_last_intersection_code]

process_offset_from_road_centre_update(self, data) ==
    [self EXCEPT !.offset_from_road_centre_mm = data.offset_from_road_centre_mm]

(***************************************************************************)
(* One AnkiVehicle and its caller. obj is the vehicle, arg the argument of *)
(* the last call (the message processed, or the vehicle that configure or  *)
(* new consumed), hist the messages processed so far, out the command list *)
(* configure returned. The messages are decoded from received buffers, the *)
(* only way to obtain one outside the crate.                               *)
(***************************************************************************)
\* The longest sequence of process_* calls followed.
MaxCalls == 3

\* The offsets a vehicle starts with (0.0, 100.0) and the fills of the buffers
\* it receives.
VehicleOffsets == { <<0, 0, 0, 0>>, <<66, 200, 0, 0>> }
VehicleFills == { <<255, 0>>, <<1, 17>> }

AnkiVehicle(sdk_mode_on, offset) ==
    [ type |-> "AnkiVehicle",
      name |-> "", bt_address |-> "",
      version |-> 0, battery_level |-> 0, sdk_mode_on |-> sdk_mode_on,
      speed_mm_per_sec |-> 0, offset_from_road_centre_mm |-> offset, location_id |-> 0,
      parsing_flags |-> 0,
      last_desired_speed_mm_per_sec |-> 0, last_desired_lane_change_speed_mm_per_sec |-> 0,
      road_piece_idx_prev |-> 0, road_piece_idx |-> 0,
      uphill_counter |-> 0, downhill_counter |-> 0,
      left_wheel_dist_cm |-> 0, right_wheel_dist_cm |-> 0,
      intersection_code |-> "None", is_exiting_intersection |-> 0,
      mm_since_last_transition_bar |-> 0, mm_since_last_intersection_code |-> 0 ]

VehicleInit ==
    /\ op = "none" /\ src = <<>> /\ arg = NoObj
    /\ dst = <<>> /\ out = <<>> /\ res = NoRes /\ ret = 0
    /\ made = "AnkiVehicle" /\ hist = <<>>
    /\ ctx \in Endian
    /\ \E on \in BOOLEAN, o \in VehicleOffsets : obj = AnkiVehicle(on, o)

\* A received buffer of the given size and tag filled by f.
Received(size, tag, f) == Framed(size, size - 1, AnkiVehicleMsgType[tag], f)

\* vehicle.process_*(data): the vehicle after the call, data being a message.
Processed(name, r, after) ==
    /\ obj.type = "AnkiVehicle"
    /\ Len(hist) < MaxCalls
    /\ r.ok
    /\ op' = name
    /\ arg' = r.val
    /\ obj' = after
    /\ hist' = Append(hist, r.val)
    /\ UNCHANGED <<ctx, src, dst, out, res, ret, made>>

ProcessBatteryLevelResponse ==
    \E f \in VehicleFills :
        LET r == AnkiVehicleMsgBatteryLevelResponse_try_from_ctx(
                     Received(ANKI_VEHICLE_MSG_BATTERY_LEVEL_RESPONSE_SIZE, "V2CBatteryLevelResponse", f), ctx)
        IN  Processed("process_battery_level_response", r,
                      process_battery_level_response(obj, r.val))

ProcessVersionResponse ==
    \E f \in VehicleFills :
        LET r == AnkiVehicleMsgVersionResponse_try_from_ctx(
                     Received(ANKI_VEHICLE_MSG_VERSION_RESPONSE_SIZE, "V2CVersionResponse", f), ctx)
        IN  Processed("process_version_response", r, process_version_response(obj, r.val))

ProcessPositionUpdate ==
    \E f \in VehicleFills :
        LET r == AnkiVehicleMsgLocalisationPositionUpdate_try_from_ctx(
                     Received(ANKI_VEHICLE_MSG_LOCALISATION_POSITION_UPDATE_SIZE, "V2CLocalisationPositionUpdate", f), ctx)
        IN  Processed("process_position_update", r, process_position_update(obj, r.val))

ProcessTransitionUpdate ==
    \E f \in VehicleFills :
        LET r == AnkiVehicleMsgLocalisationTransitionUpdate_try_from_ctx(
                     Received(ANKI_VEHICLE_MSG_LOCALISATION_TRANSITION_UPDATE_SIZE, "V2CLocalisationTransitionUpdate", f), ctx)
        IN  Processed("process_transition_update", r, process_transition_update(obj, r.val))

ProcessIntersectionUpdate ==
    \E f \in VehicleFills :
        LET r == AnkiVehicleMsgLocalisationIntersectionUpdate_try_from_ctx(
                     Received(ANKI_VEHICLE_MSG_LOCALISATION_INTERSECTION_UPDATE_SIZE, "V2CLocalisationIntersectionUpdate", f), ctx)
        IN  Processed("process_intersection_update", r,
                      process_intersection_update(obj, r.val))

ProcessOffsetFromRoadCentreUpdate ==
    \E f \in VehicleFills :
        LET r == AnkiVehicleMsgOffsetFromRoadCentreUpdate_try_from_ctx(
                     Received(ANKI_VEHICLE_MSG_OFFSET_FROM_ROAD_CENTRE_UPDATE_SIZE, "V2COffsetFromRoadCentreUpdate", f), ctx)
        IN  Processed("process_offset_from_road_centre_update", r,
                      process_offset_from_road_centre_update(obj, r.val))

\* vehicle.configure(): the vehicle is moved into the call; ret is 1 on a panic.
Configure ==
    /\ obj.type = "AnkiVehicle"
    /\ LET r == configure(obj)
       IN  /\ op' = "configure"
           /\ arg' = obj
           /\ obj' = NoObj
           /\ out' = r.commands
           /\ ret' = IF r.panic THEN 1 ELSE 0
    /\ UNCHANGED <<ctx, src, dst, res, made, hist>>

\* vehicle.new(name, bt_address): self is taken by value, changed and dropped.
VehicleNew ==
    /\ obj.type = "AnkiVehicle"
    /\ op' = "new"
    /\ arg' = obj
    /\ obj' = NoObj
    /\ UNCHANGED <<ctx, src, dst, out, res, ret, made, hist>>

VehicleNext ==
    \/ ProcessBatteryLevelResponse
    \/ ProcessVersionResponse
    \/ ProcessPositionUpdate
    \/ ProcessTransitionUpdate
    \/ ProcessIntersectionUpdate
    \/ ProcessOffsetFromRoadCentreUpdate
    \/ Configure
    \/ VehicleNew

SpecVehicle == VehicleInit /\ [][VehicleNext]_vars

(***************************************************************************)
(* Several callers, each with its own lights pattern and its own 18-byte   *)
(* buffer, whose calls of append, encode and decode overlap: a call begins *)
(* (its arguments are fixed) and later returns (it has run on the memory   *)
(* it was given), and the other callers take steps in between. Here every  *)
(* variable holds one value per caller: obj the pattern, dst the buffer,   *)
(* arg the call in flight, res the last result, ret the calls made so far, *)
(* ctx the byte order the caller uses. The call in flight records the      *)
(* pattern and the buffer as they were when it began. A pattern is moved   *)
(* into an encode (self by value) and is gone when the encode returns; an  *)
(* append and a decode borrow (&mut self, &[u8]).                          *)
(***************************************************************************)
Callers == {1, 2}

\* The number of calls each caller makes at most.
MaxCallsEach == 2

NoConfig == [channel |-> "Red", effect |-> "Steady", start |-> 0, end |-> 0,
             cycles_per_10_sec |-> 0]

NoCall == [name |-> "none", self |-> NoObj, data |-> <<>>, config |-> NoConfig, e |-> "BE"]

Call(name, self, data, config, e) ==
    [name |-> name, self |-> self, data |-> data, config |-> config, e |-> e]

\* What a call returns, and what it leaves in the memory it was lent.
Returned(name, ok, n, count, val, self, data) ==
    [name |-> name, ok |-> ok, n |-> n, ret |-> count, val |-> val, self |-> self, data |-> data]

NoReturn == Returned("none", FALSE, 0, 0, NoObj, NoObj, <<>>)

\* The call run on the caller's pattern and buffer.
Run(call, self, data) ==
    CASE call.name = "append" ->
             LET r == append(self, call.config)
             IN  Returned("append", TRUE, 0, r.ret, NoObj, r.self, data)
      [] call.name = "try_into_ctx" ->
             LET r == AnkiVehicleMsgLightsPattern_try_into_ctx(self, data, call.e)
             IN  Returned("try_into_ctx", r.ok, r.n, 0, NoObj, NoObj, r.data)
      [] call.name = "try_from_ctx" ->
             LET r == AnkiVehicleMsg_try_from_ctx(data, call.e)
             IN  Returned("try_from_ctx", r.ok, r.n, 0, r.val, self, data)

CallersInit ==
    /\ op = <<"none", 0>> /\ src = <<>> /\ out = <<>> /\ made = "callers" /\ hist = <<>>
    /\ ctx = [c \in Callers |-> IF c = 1 THEN "BE" ELSE "LE"]
    /\ dst = [c \in Callers |->
                 FillBuf(ANKI_VEHICLE_MSG_LIGHTS_PATTERN_SIZE, IF c = 1 THEN <<0, 0>> ELSE <<1, 17>>)]
    /\ \E i \in {<<"Red", "Steady", 0, 0, 0>>, <<"Tail", "Flash", 12, 13, 600>>} :
          obj = [c \in Callers |->
                    IF c = 1 THEN anki_vehicle_msg_lights_pattern("Blue", "Fade", 1, 2, 60)
                    ELSE anki_vehicle_msg_lights_pattern(i[1], i[2], i[3], i[4], i[5])]
    /\ arg = [c \in Callers |-> NoCall]
    /\ res = [c \in Callers |-> NoReturn]
    /\ ret = [c \in Callers |-> 0]

Begin(c, call) ==
    /\ arg[c].name = "none"
    /\ ret[c] < MaxCallsEach
    /\ op' = <<"call", c>>
    /\ arg' = [arg EXCEPT ![c] = call]
    /\ ret' = [ret EXCEPT ![c] = ret[c] + 1]

\* pattern.append(config) is called.
BeginAppend(c) ==
    /\ obj[c].type = "AnkiVehicleMsgLightsPattern"
    /\ \E i \in AppendInputs :
          Begin(c, Call("append", obj[c], dst[c],
                        anki_vehicle_light_config(i[1], i[2], i[3], i[4], i[5]), ctx[c]))
    /\ UNCHANGED <<ctx, src, obj, dst, out, res, made, hist>>

\* buf.gwrite_with(pattern, &mut 0, ctx) is called.
BeginEncode(c) ==
    /\ obj[c].type = "AnkiVehicleMsgLightsPattern"
    /\ Begin(c, Call("try_into_ctx", obj[c], dst[c], NoConfig, ctx[c]))
    /\ UNCHANGED <<ctx, src, obj, dst, out, res, made, hist>>

\* buf.gread_with::<AnkiVehicleMsg>(&mut 0, ctx) is called.
BeginDecode(c) ==
    /\ Begin(c, Call("try_from_ctx", obj[c], dst[c], NoConfig, ctx[c]))
    /\ UNCHANGED <<ctx, src, obj, dst, out, res, made, hist>>

\* Mutant of End: the call runs on one buffer that all callers share (that of
\* caller 1), as it would with a static scratch buffer.
MutEndSharedBuffer(c) ==
    /\ arg[c].name # "none"
    /\ LET r == Run(arg[c], obj[c], dst[1])
       IN  /\ op' = <<"return", c>>
           /\ res' = [res EXCEPT ![c] = r]
           /\ obj' = [obj EXCEPT ![c] = r.self]
           /\ dst' = [dst EXCEPT ![1] = r.data]
           /\ arg' = [arg EXCEPT ![c] = NoCall]
    /\ UNCHANGED <<ctx, src, out, ret, made, hist>>

\* The call of caller c runs on the caller's pattern and buffer and returns.
End(c) ==
    /\ arg[c].name # "none"
    /\ LET r == Run(arg[c], obj[c], dst[c])
       IN  /\ op' = <<"return", c>>
           /\ res' = [res EXCEPT ![c] = r]
           /\ obj' = [obj EXCEPT ![c] = r.self]
           /\ dst' = [dst EXCEPT ![c] = r.data]
           /\ arg' = [arg EXCEPT ![c] = NoCall]
    /\ UNCHANGED <<ctx, src, out, ret, made, hist>>

CallersNext ==
    \E c \in Callers :
        \/ BeginAppend(c)
        \/ BeginEncode(c)
        \/ BeginDecode(c)
        \/ End(c)

SpecCallers == CallersInit /\ [][CallersNext]_vars

(***************************************************************************)
(* Every operation of the crate in one specification: a behaviour is one   *)
(* decode of the caller's buffer by any decoder, or, when the caller holds *)
(* no buffer, a sequence of constructor, append, encode and decode calls.  *)
(***************************************************************************)
AllInit == Init \/ AdvInit

AllNext ==
    \/ Next
    \/ AdvNext
    \/ (src = <<>> /\ BuildNext)

SpecAll == AllInit /\ [][AllNext]_vars

(***************************************************************************)
(* Claims.                                                                 *)
(***************************************************************************)
\* The size the claims give for each concrete decodable type.
DecodableSize ==
    [ AnkiVehicleMsgVersionResponse |-> 4,
      AnkiVehicleMsgBatteryLevelResponse |-> 4,
      AnkiVehicleMsgLocalisationPositionUpdate |-> 17,
      AnkiVehicleMsgLocalisationTransitionUpdate |-> 18,
      AnkiVehicleMsgLocalisationIntersectionUpdate |-> 13,
      AnkiVehicleMsgOffsetFromRoadCentreUpdate |-> 7 ]

\* C1: a concrete decoder accepts its input if and only if the input's length is
\* the type's static size; every other length is rejected with the size-mismatch
\* error, and an accepted input is consumed whole, whatever its bytes are.
C1_DecodeIffExactSize ==
    op \in DOMAIN DecodableSize =>
        /\ res.ok <=> (Len(src) = DecodableSize[op])
        /\ ~res.ok => (res.err = SizeMismatch /\ obj = NoObj)
        /\ res.ok => (res.n = Len(src) /\ obj.type = op)

\* C1 witness: a 17-byte position update with a wrong size byte and an unassigned
\* tag byte has been accepted.
C1_Witness ==
    /\ op = "AnkiVehicleMsgLocalisationPositionUpdate"
    /\ Len(src) = 17 /\ src[1] = 255 /\ src[2] \notin AssignedCodes
    /\ res.ok

\* C3: the byte-to-type mapping is total and maps every byte that is not one of
\* the 21 assigned codes to Unknown; a decoder given an unassigned tag byte fails
\* only for the length, and when it succeeds msg_id is Unknown.
C3_TagLenient ==
    /\ Cardinality(AssignedCodes) = 21
    /\ op = "from_byte" =>
        /\ obj.v \in MsgTypeVariants
        /\ src[1] \notin AssignedCodes => obj.v = "Unknown"
    /\ (/\ op \in DOMAIN DecodableSize \cup {"AnkiVehicleMsg"}
        /\ Len(src) >= 2
        /\ src[2] \notin AssignedCodes) =>
        /\ res.ok => obj.msg_id = "Unknown"
        /\ ~res.ok => /\ res.err = SizeMismatch
                      /\ IF op = "AnkiVehicleMsg" THEN Len(src) > 20
                                                  ELSE Len(src) # DecodableSize[op]

\* C3 witness: an envelope whose tag byte 0xFF is unassigned has been decoded.
C3_Witness ==
    /\ op = "AnkiVehicleMsg" /\ Len(src) = 5 /\ src[2] = 255
    /\ res.ok /\ obj.msg_id = "Unknown"

\* C4: from_byte(to_byte(t)) = t for every variant t, and to_byte(from_byte(b))
\* is b for an assigned code b and 0 for every other byte.
C4_TagRoundTrip ==
    /\ op = "into_byte" => (obj.v = arg.v /\ ret \in Byte)
    /\ op = "from_byte" => ret = (IF src[1] \in AssignedCodes THEN src[1] ELSE 0)

\* C4 witness: the unassigned byte 0x91 has been mapped to a variant and back to 0.
C4_Witness ==
    op = "from_byte" /\ src[1] = 145 /\ ret = 0

\* The size the claims give for each command type.
CommandSize ==
    [ AnkiVehicleMsgSdkMode |-> 4,
      AnkiVehicleMsgSetSpeed |-> 7,
      AnkiVehicleMsgTurn |-> 4,
      AnkiVehicleMsgSetOffsetFromRoadCentre |-> 6,
      AnkiVehicleMsgChangeLane |-> 12,
      AnkiVehicleMsgSetLights |-> 3,
      AnkiVehicleMsgLightsPattern |-> 18,
      AnkiVehicleMsgSetConfigParams |-> 4 ]

\* C2: a command encoder given a destination whose length differs from the
\* type's static size fails with the size-mismatch error; given a destination of
\* exactly that length it succeeds and reports that many bytes written.
C2_EncodeIffExactSize ==
    (op = "try_into_ctx" /\ arg.type \in DOMAIN CommandSize) =>
        IF Len(dst) # CommandSize[arg.type]
        THEN ~res.ok /\ res.err = SizeMismatch
        ELSE res.ok /\ res.n = CommandSize[arg.type] /\ Len(out) = res.n

\* C2 witness: a set-speed command has been refused an 8-byte destination.
C2_Witness ==
    /\ op = "try_into_ctx" /\ arg.type = "AnkiVehicleMsgSetSpeed"
    /\ Len(dst) = 8 /\ ~res.ok /\ res.err = SizeMismatch

ConstructorTag ==
    [ anki_vehicle_msg_set_sdk_mode |-> 144,
      anki_vehicle_msg_set_speed |-> 36,
      anki_vehicle_msg_set_offset_from_road_centre |-> 44,
      anki_vehicle_msg_change_lane |-> 37,
      anki_vehicle_msg_set_lights |-> 29,
      anki_vehicle_msg_lights_pattern |-> 51,
      anki_vehicle_msg_ping |-> 22,
      anki_vehicle_msg_disconnect |-> 13,
      anki_vehicle_msg_get_version |-> 24,
      anki_vehicle_msg_get_battery_level |-> 26,
      anki_vehicle_msg_cancel_lane_change |-> 38,
      anki_vehicle_msg_turn |-> 50,
      anki_vehicle_msg_turn_180 |-> 50,
      anki_vehicle_msg_set_config_params |-> 69 ]

\* C6: a message built by a public constructor (a lights pattern after any
\* appends included) encodes with a first byte equal to the encoded length minus
\* one and a second byte equal to the tag code of the constructor's command.
C6_ConstructedHeader ==
    (op = "try_into_ctx" /\ made \in DOMAIN ConstructorTag /\ res.ok) =>
        /\ res.n = Len(out)
        /\ out[1] = res.n - 1
        /\ out[2] = ConstructorTag[made]

\* C6 witness: a lights pattern that was appended to has been encoded.
C6_Witness ==
    /\ op = "try_into_ctx" /\ made = "anki_vehicle_msg_lights_pattern"
    /\ arg.channel_count = 2 /\ res.ok /\ out[1] = 17 /\ out[2] = 51

\* The shape of a lights pattern: 1 to 3 channels, the first channel_count slots
\* populated, the others empty.
PatternShape(p) ==
    /\ p.channel_count \in 1..3
    /\ DOMAIN p.channel_config = 1..3
    /\ \A i \in 1..3 : p.channel_config[i].some <=> (i <= p.channel_count)

\* C7: in every state reachable by the constructor followed by any number of
\* appends, a lights pattern has a channel_count in 1..3, slots 0..count-1
\* populated and the remaining slots empty.
C7_PatternShape ==
    /\ obj.type = "AnkiVehicleMsgLightsPattern" => PatternShape(obj)
    /\ (op = "try_into_ctx" /\ arg.type = "AnkiVehicleMsgLightsPattern") => PatternShape(arg)

\* C7 witness: a pattern that is full and has been appended to again.
C7_Witness ==
    /\ op = "append" /\ ret = 0
    /\ obj.channel_count = 3 /\ obj.channel_config[3].some

\* C8: an append to a pattern that already holds 3 channel configurations
\* returns 0 and leaves the count and every slot as they were.
C8_AppendFull ==
    [][(op' = "append" /\ obj.channel_count = 3) => (ret' = 0 /\ obj' = obj)]_vars

\* C8 witness: a second append to a full pattern has returned 0.
C8_Witness ==
    /\ op = "append" /\ ret = 0 /\ Len(hist) = 3
    /\ obj.channel_count = 3 /\ obj.channel_config[3] # OptSome(arg)

\* C9: an append to a pattern with n < 3 channels stores the configuration in
\* slot n, leaves the other slots, size and msg_id unchanged, sets the count to
\* n + 1 and returns n + 1, never 0.
C9_AppendStores ==
    [][(op' = "append" /\ obj.channel_count < 3) =>
          LET n == obj.channel_count
          IN  /\ obj'.channel_config[n + 1] = OptSome(arg')
              /\ \A i \in 1..3 : i # n + 1 => obj'.channel_config[i] = obj.channel_config[i]
              /\ obj'.size = obj.size /\ obj'.msg_id = obj.msg_id /\ obj'.type = obj.type
              /\ obj'.channel_count = n + 1
              /\ ret' = n + 1 /\ ret' # 0]_vars

\* C9 witness: an append to a 2-channel pattern has stored its configuration in
\* slot 2 and returned 3.
C9_Witness ==
    /\ op = "append" /\ ret = 3
    /\ obj.channel_count = 3 /\ obj.channel_config[3] = OptSome(arg)

\* The five bytes of a channel configuration.
ConfigBytes(c) ==
    << LightChannel[c.channel], LightEffect[c.effect], c.start, c.end, c.cycles_per_10_sec >>

\* The configurations in the order they were added, as bytes.
RECURSIVE HistBytes(_)
HistBytes(h) ==
    IF h = <<>> THEN <<>> ELSE ConfigBytes(Head(h)) \o HistBytes(Tail(h))

\* C10: a pattern with channel_count n encodes to 18 bytes: 17, 0x33, n, then
\* the n configurations in the order they were added, 5 bytes each, then
\* 5 * (3 - n) zero bytes, whatever the destination held and in either byte order.
C10_PatternBytes ==
    (op = "try_into_ctx" /\ arg.type = "AnkiVehicleMsgLightsPattern" /\ Len(dst) = 18) =>
        LET n == arg.channel_count
        IN  /\ res.ok /\ res.n = 18 /\ Len(out) = 18
            /\ n = Len(hist)
            /\ out = <<17, 51, n>> \o HistBytes(hist) \o [i \in 1..(5 * (3 - n)) |-> 0]

\* C10 witness: a fresh single-channel pattern written over a destination full
\* of 0xEE has bytes 8..17 zero.
C10_Witness ==
    /\ op = "try_into_ctx" /\ arg.type = "AnkiVehicleMsgLightsPattern"
    /\ arg.channel_count = 1 /\ res.ok
    /\ \A i \in 9..18 : dst[i] = 238 /\ out[i] = 0

\* C11 as stated: the cycles_per_10_sec stored by anki_vehicle_light_config and by
\* anki_vehicle_msg_lights_pattern is the cycles-per-minute argument divided by 6,
\* rounded down, for every argument in 0..65535.
C11_CyclesDividedBySix ==
    /\ op = "anki_vehicle_light_config" =>
           obj.config.cycles_per_10_sec = arg.cycles_per_min \div 6
    /\ op = "anki_vehicle_msg_lights_pattern" =>
           obj.channel_config[1].v.cycles_per_10_sec = arg.cycles_per_min \div 6

\* C12: the envelope decoder succeeds if and only if the input is 2 to 20 bytes
\* long; a longer input is rejected with the size-mismatch error and an input of
\* 0 or 1 bytes produces no message.
C12_EnvelopeLengths ==
    op = "AnkiVehicleMsg" =>
        /\ res.ok <=> (Len(src) >= 2 /\ Len(src) <= 20)
        /\ Len(src) > 20 => res.err = SizeMismatch
        /\ ~res.ok => obj = NoObj

\* C12 witness: a one-byte input has been refused by the envelope decoder.
C12_Witness ==
    op = "AnkiVehicleMsg" /\ Len(src) = 1 /\ ~res.ok /\ obj = NoObj

\* C13: the envelope decoded from a buffer b of n bytes (2 <= n <= 20) has
\* size = b[0], msg_id = the variant of b[1], payload = b[2..n]; all n bytes are
\* consumed and b[0] is not compared with n.
C13_EnvelopeFields ==
    (op = "AnkiVehicleMsg" /\ Len(src) >= 2 /\ Len(src) <= 20) =>
        /\ res.ok /\ res.n = Len(src)
        /\ obj.size = src[1]
        /\ obj.msg_id \in MsgTypeVariants
        /\ AnkiVehicleMsgType[obj.msg_id] = (IF src[2] \in AssignedCodes THEN src[2] ELSE 0)
        /\ obj.payload = [i \in 1..(Len(src) - 2) |-> src[i + 2]]

\* C13 witness: a 20-byte buffer whose size byte is not 19 has been decoded into
\* an envelope with an 18-byte payload.
C13_Witness ==
    /\ op = "AnkiVehicleMsg" /\ Len(src) = 20 /\ src[1] = 255
    /\ res.ok /\ Len(obj.payload) = 18 /\ obj.payload[18] = src[20]

\* C14: the envelope encoder refuses every destination whose length is not
\* 2 + the payload length; otherwise it writes the stored size byte, the tag
\* code of msg_id and the payload bytes, and reports 2 + payload length.
C14_EnvelopeEncode ==
    (op = "try_into_ctx" /\ arg.type = "AnkiVehicleMsg") =>
        IF Len(dst) # 2 + Len(arg.payload)
        THEN ~res.ok /\ res.err = SizeMismatch
        ELSE /\ res.ok /\ res.n = 2 + Len(arg.payload)
             /\ out = <<arg.size, AnkiVehicleMsgType[arg.msg_id]>> \o arg.payload

\* C14 witness: an envelope with a one-byte payload and a size byte of 255 has
\* been written over a destination full of 0xEE.
C14_Witness ==
    /\ op = "try_into_ctx" /\ arg.type = "AnkiVehicleMsg"
    /\ Len(arg.payload) = 1 /\ arg.size = 255 /\ arg.payload[1] # 238
    /\ res.ok /\ dst[3] = 238 /\ out[3] = arg.payload[1]

\* The size the claims give for each advertisement structure.
AdvSize ==
    [ AnkiVehicleAdvLocalName |-> 21,
      AnkiVehicleAdvMfgData |-> 8,
      AnkiVehicleAdv |-> 47 ]

\* C15 as stated: each advertisement decoder rejects every input whose length
\* is not exactly its static size (21, 8, 47), longer inputs as well as shorter.
C15_AdvExactLength ==
    (op \in DOMAIN AdvSize /\ Len(src) # AdvSize[op]) => ~res.ok

\* The 16-bit number and the 32-bit value (most significant byte first) held by
\* consecutive buffer bytes in the byte order of the call.
U16Of(b1, b2) == IF ctx = "BE" THEN b1 * 256 + b2 ELSE b2 * 256 + b1
U32Of(b1, b2, b3, b4) == IF ctx = "BE" THEN <<b1, b2, b3, b4>> ELSE <<b4, b3, b2, b1>>

\* C16: a 47-byte advertisement b whose bytes 18..30 are UTF-8 decodes to
\* flags = b[0], tx_power = b[1], manufacturer data from b[2..9] (identifier,
\* model_id, reserved, product_id), local name from b[10..30] (state, version,
\* 5 reserved bytes, 13-byte name) and service_id = b[31..46], consuming 47 bytes.
C16_AdvFields ==
    (op = "AnkiVehicleAdv" /\ Len(src) = 47 /\ from_utf8_ok(SubSeq(src, 19, 31))) =>
        /\ res.ok /\ res.n = 47
        /\ obj.flags = src[1]
        /\ obj.tx_power = src[2]
        /\ obj.mfg_data = [ type |-> "AnkiVehicleAdvMfgData",
                            identifier |-> U32Of(src[3], src[4], src[5], src[6]),
                            model_id |-> src[7],
                            _reserved |-> src[8],
                            product_id |-> U16Of(src[9], src[10]) ]
        /\ obj.local_name = [ type |-> "AnkiVehicleAdvLocalName",
                              state |-> src[11],
                              version |-> U16Of(src[12], src[13]),
                              _reserved |-> SubSeq(src, 14, 18),
                              name |-> SubSeq(src, 19, 31) ]
        /\ obj.service_id = SubSeq(src, 32, 47)

\* C16 witness: the advertisement of the tests ("localnametest") has been
\* decoded big-endian.
C16_Witness ==
    /\ op = "AnkiVehicleAdv" /\ ctx = "BE" /\ res.ok
    /\ src[19] = 108 /\ src[31] = 116
    /\ obj.mfg_data.identifier = <<137, 171, 205, 239>>
    /\ obj.local_name.version = 52719
    /\ obj.service_id[16] = 15

\* C17: a 13-byte intersection update whose code byte (offset 7) is outside 0..4
\* decodes successfully with intersection_code = None; every other field is the
\* one its bytes give, as it is for a valid code byte.
C17_IntersectionCodeLenient ==
    (op = "AnkiVehicleMsgLocalisationIntersectionUpdate" /\ Len(src) = 13) =>
        /\ res.ok /\ res.n = 13
        /\ obj.intersection_code \in DOMAIN IntersectionCode
        /\ IntersectionCode[obj.intersection_code] = (IF src[8] <= 4 THEN src[8] ELSE 0)
        /\ obj.size = src[1]
        /\ AnkiVehicleMsgType[obj.msg_id] = (IF src[2] \in AssignedCodes THEN src[2] ELSE 0)
        /\ obj.road_piece_idx = (IF src[3] >= 128 THEN src[3] - 256 ELSE src[3])
        /\ obj.offset_from_road_centre_mm = U32Of(src[4], src[5], src[6], src[7])
        /\ obj.is_exiting = src[9]
        /\ obj.mm_since_last_transition_bar = U16Of(src[10], src[11])
        /\ obj.mm_since_last_intersection_code = U16Of(src[12], src[13])

\* C17 witness: an intersection update with code byte 5 has been decoded to None,
\* the fields after the code byte being non-zero.
C17_Witness ==
    /\ op = "AnkiVehicleMsgLocalisationIntersectionUpdate" /\ res.ok
    /\ src[8] = 5 /\ obj.intersection_code = "None"
    /\ obj.is_exiting = 137 /\ obj.mm_since_last_transition_bar # 0

\* C18: when an encoder refuses the destination for its length, the destination
\* holds the bytes it held before the call.
C18_RejectedEncodeWritesNothing ==
    (op = "try_into_ctx" /\ ~res.ok /\ res.err = SizeMismatch) => (out = dst /\ res.n = 0)

\* C18 witness: a change-lane command has been refused a 13-byte destination full
\* of 0xEE, which is still full of 0xEE.
C18_Witness ==
    /\ op = "try_into_ctx" /\ arg.type = "AnkiVehicleMsgChangeLane"
    /\ Len(dst) = 13 /\ dst[1] = 238
    /\ ~res.ok /\ res.err = SizeMismatch /\ out = dst

\* The high and low byte of the two's-complement representation of a 16-bit
\* signed number.
High(x) == ((x + 65536) % 65536) \div 256
Low(x) == ((x + 65536) % 65536) % 256

\* C20: anki_vehicle_msg_set_speed(s, a) encoded big-endian is the 7 bytes
\* 0x06, 0x24, high(s), low(s), high(a), low(a), 0x00.
C20_SetSpeedBytes ==
    (/\ op = "try_into_ctx" /\ made = "anki_vehicle_msg_set_speed"
     /\ ctx = "BE" /\ Len(dst) = 7) =>
        /\ res.ok /\ res.n = 7
        /\ out = <<6, 36, High(hist[1]), Low(hist[1]), High(hist[2]), Low(hist[2]), 0>>

\* C20 witness: set_speed(0x7BCD, -1) has been encoded big-endian.
C20_Witness ==
    /\ op = "try_into_ctx" /\ made = "anki_vehicle_msg_set_speed" /\ ctx = "BE"
    /\ hist = <<31693, -1>>
    /\ out = <<6, 36, 123, 205, 255, 255, 0>>

\* The operations that decode a buffer, and the lengths the claims call
\* acceptable for the operation that has just run.
DecodeOps == DOMAIN DecodableSize \cup DOMAIN AdvSize \cup {"AnkiVehicleMsg"}

AcceptableLength ==
    CASE op \in DOMAIN DecodableSize -> Len(src) = DecodableSize[op]
      [] op \in DOMAIN AdvSize -> Len(src) = AdvSize[op]
      [] op = "AnkiVehicleMsg" -> Len(src) >= 2 /\ Len(src) <= 20
      [] op = "try_into_ctx" /\ arg.type \in DOMAIN CommandSize ->
             Len(dst) = CommandSize[arg.type]
      [] op = "try_into_ctx" /\ arg.type = "AnkiVehicleMsg" ->
             Len(dst) = 2 + Len(arg.payload)
      [] op = "try_into_ctx" /\ arg.type = "AnkiVehicleLightConfig" ->
             Len(dst) >= 5 /\ Len(dst) <= 20

\* C19 as stated: an encode or decode operation fails only when the length of
\* its buffer is not acceptable, never because of the values of the bytes.
C19_OnlyLengthFails ==
    ((op \in DecodeOps \/ op = "try_into_ctx") /\ ~res.ok) => ~AcceptableLength

\* C19: every encoder, every message decoder and the manufacturer-data decoder
\* succeed or fail by the buffer length alone, and fail with the size-mismatch
\* error (an envelope input of 0 or 1 bytes fails in a read, with BadOffset);
\* the local-name and the full advertisement decoder also fail, with BadInput,
\* on a buffer of accepted length whose 13 name bytes are not UTF-8.
C19_FailureCauses ==
    /\ op = "try_into_ctx" =>
           /\ res.ok <=> AcceptableLength
           /\ ~res.ok => res.err = SizeMismatch
    /\ op \in DOMAIN DecodableSize =>
           /\ res.ok <=> AcceptableLength
           /\ ~res.ok => res.err = SizeMismatch
    /\ op = "AnkiVehicleMsg" =>
           /\ res.ok <=> AcceptableLength
           /\ ~res.ok => res.err = (IF Len(src) > 20 THEN SizeMismatch ELSE "BadOffset")
    /\ op = "AnkiVehicleAdvMfgData" =>
           /\ res.ok <=> Len(src) >= 8
           /\ ~res.ok => res.err = SizeMismatch
    /\ op = "AnkiVehicleAdvLocalName" =>
           /\ res.ok <=> (Len(src) >= 21 /\ from_utf8_ok(SubSeq(src, 9, 21)))
           /\ ~res.ok => res.err = (IF Len(src) < 21 THEN SizeMismatch ELSE "BadInput")
    /\ op = "AnkiVehicleAdv" =>
           /\ res.ok <=> (Len(src) = 47 /\ from_utf8_ok(SubSeq(src, 19, 31)))
           /\ ~res.ok => res.err = (IF Len(src) # 47 THEN SizeMismatch ELSE "BadInput")

\* C19 witness: a 47-byte advertisement has been refused because its name ends
\* in the middle of a character.
C19_Witness ==
    /\ op = "AnkiVehicleAdv" /\ Len(src) = 47 /\ src[31] = 195
    /\ ~res.ok /\ res.err = "BadInput" /\ obj = NoObj

\* C21: anki_vehicle_msg_change_lane(speed, accel, offset) encoded big-endian
\* is the 12 bytes 11, 0x25, speed (2 bytes), accel (2 bytes), the 4 bytes of
\* the offset's 32-bit float representation most significant first, 0, 0.
C21_ChangeLaneBytes ==
    (/\ op = "try_into_ctx" /\ made = "anki_vehicle_msg_change_lane"
     /\ ctx = "BE" /\ Len(dst) = 12) =>
        /\ res.ok /\ res.n = 12
        /\ out = <<11, 37, High(hist[1]), Low(hist[1]), High(hist[2]), Low(hist[2]),
                   hist[3][1], hist[3][2], hist[3][3], hist[3][4], 0, 0>>

\* C21 witness: change_lane(300, 2500, 20.0) has been encoded big-endian.
C21_Witness ==
    /\ op = "try_into_ctx" /\ made = "anki_vehicle_msg_change_lane" /\ ctx = "BE"
    /\ hist = <<300, 2500, <<65, 160, 0, 0>>>>
    /\ out = <<11, 37, 1, 44, 9, 196, 65, 160, 0, 0, 0, 0>>

\* C22: a 4-byte buffer b decodes as a version response or a battery-level
\* response to the value 256*b[2] + b[3] under big-endian and 256*b[3] + b[2]
\* under little-endian; the decoded size and msg_id are those the same decode
\* gives under the other byte order.
C22_ResponseEndianness ==
    (/\ op \in {"AnkiVehicleMsgVersionResponse", "AnkiVehicleMsgBatteryLevelResponse"}
     /\ Len(src) = 4) =>
        LET value == IF op = "AnkiVehicleMsgVersionResponse"
                     THEN obj.version ELSE obj.battery_level
            other == try_from_ctx(op, src, IF ctx = "BE" THEN "LE" ELSE "BE")
        IN  /\ res.ok /\ other.ok
            /\ value = (IF ctx = "BE" THEN 256 * src[3] + src[4] ELSE 256 * src[4] + src[3])
            /\ obj.size = other.val.size /\ obj.size = src[1]
            /\ obj.msg_id = other.val.msg_id

\* C22 witness: the battery-level response 03 1b 23 34 has been decoded
\* little-endian to the level 0x3423.
C22_Witness ==
    /\ op = "AnkiVehicleMsgBatteryLevelResponse" /\ ctx = "LE" /\ res.ok
    /\ src = <<3, 27, 35, 52>>
    /\ obj.battery_level = 13347
    /\ obj.msg_id = "V2CBatteryLevelResponse"

\* The byte widths of the fields of each concrete message struct, in declared
\* order (u8, i8 and #[repr(u8)] enums 1, u16 and i16 2, f32 4, a light
\* configuration slot ANKI_VEHICLE_LIGHT_CONFIG_SIZE), and its size constant.
FieldWidths ==
    [ AnkiVehicleMsgVersionResponse |-> <<1, 1, 2>>,
      AnkiVehicleMsgBatteryLevelResponse |-> <<1, 1, 2>>,
      AnkiVehicleMsgSdkMode |-> <<1, 1, 1, 1>>,
      AnkiVehicleMsgSetSpeed |-> <<1, 1, 2, 2, 1>>,
      AnkiVehicleMsgTurn |-> <<1, 1, 1, 1>>,
      AnkiVehicleMsgSetOffsetFromRoadCentre |-> <<1, 1, 4>>,
      AnkiVehicleMsgChangeLane |-> <<1, 1, 2, 2, 4, 1, 1>>,
      AnkiVehicleMsgLocalisationPositionUpdate |-> <<1, 1, 1, 1, 4, 2, 1, 1, 1, 2, 2>>,
      AnkiVehicleMsgLocalisationTransitionUpdate |->
          <<1, 1, 1, 1, 4, 1, 1, 2, 1, 1, 1, 1, 1, 1>>,
      AnkiVehicleMsgLocalisationIntersectionUpdate |-> <<1, 1, 1, 4, 1, 1, 2, 2>>,
      AnkiVehicleMsgOffsetFromRoadCentreUpdate |-> <<1, 1, 4, 1>>,
      AnkiVehicleMsgSetLights |-> <<1, 1, 1>>,
      AnkiVehicleMsgLightsPattern |->
          <<1, 1, 1, ANKI_VEHICLE_LIGHT_CONFIG_SIZE, ANKI_VEHICLE_LIGHT_CONFIG_SIZE,
            ANKI_VEHICLE_LIGHT_CONFIG_SIZE>>,
      AnkiVehicleMsgSetConfigParams |-> <<1, 1, 1, 1>> ]

StaticSize ==
    [ AnkiVehicleMsgVersionResponse |-> ANKI_VEHICLE_MSG_VERSION_RESPONSE_SIZE,
      AnkiVehicleMsgBatteryLevelResponse |-> ANKI_VEHICLE_MSG_BATTERY_LEVEL_RESPONSE_SIZE,
      AnkiVehicleMsgSdkMode |-> ANKI_VEHICLE_MSG_SDK_MODE_SIZE,
      AnkiVehicleMsgSetSpeed |-> ANKI_VEHICLE_MSG_SET_SPEED_SIZE,
      AnkiVehicleMsgTurn |-> ANKI_VEHICLE_MSG_TURN_SIZE,
      AnkiVehicleMsgSetOffsetFromRoadCentre |->
          ANKI_VEHICLE_MSG_SET_OFFSET_FROM_ROAD_CENTRE_SIZE,
      AnkiVehicleMsgChangeLane |-> ANKI_VEHICLE_MSG_CHANGE_LANE_SIZE,
      AnkiVehicleMsgLocalisationPositionUpdate |->
          ANKI_VEHICLE_MSG_LOCALISATION_POSITION_UPDATE_SIZE,
      AnkiVehicleMsgLocalisationTransitionUpdate |->
          ANKI_VEHICLE_MSG_LOCALISATION_TRANSITION_UPDATE_SIZE,
      AnkiVehicleMsgLocalisationIntersectionUpdate |->
          ANKI_VEHICLE_MSG_LOCALISATION_INTERSECTION_UPDATE_SIZE,
      AnkiVehicleMsgOffsetFromRoadCentreUpdate |->
          ANKI_VEHICLE_MSG_OFFSET_FROM_ROAD_CENTRE_UPDATE_SIZE,
      AnkiVehicleMsgSetLights |-> ANKI_VEHICLE_MSG_SET_LIGHTS_SIZE,
      AnkiVehicleMsgLightsPattern |-> ANKI_VEHICLE_MSG_LIGHTS_PATTERN_SIZE,
      AnkiVehicleMsgSetConfigParams |-> ANKI_VEHICLE_MSG_SET_CONFIG_PARAMS_SIZE ]

RECURSIVE SumOf(_)
SumOf(s) == IF s = <<>> THEN 0 ELSE Head(s) + SumOf(Tail(s))

\* The destination with every byte changed.
Complement(data) == [i \in 1..Len(data) |-> 255 - data[i]]

\* C23: the size constant of every concrete message type is the sum of the
\* widths of its fields; a successful decode consumes exactly that many bytes;
\* a successful encode reports that many bytes, which is the whole destination,
\* and leaves no byte of the destination as it was (the result is the same for
\* a destination that differs in every byte).
C23_SizeIsSumOfFields ==
    /\ \A t \in DOMAIN FieldWidths : StaticSize[t] = SumOf(FieldWidths[t])
    /\ (op \in DOMAIN FieldWidths /\ res.ok) =>
           /\ res.n = SumOf(FieldWidths[op])
           /\ res.n = Len(src)
    /\ (op = "try_into_ctx" /\ arg.type \in DOMAIN FieldWidths /\ res.ok) =>
           /\ res.n = SumOf(FieldWidths[arg.type])
           /\ res.n = Len(dst)
           /\ out = try_into_ctx(arg, Complement(dst), ctx).data

\* C23 witness: a lights pattern has been encoded over an 18-byte destination
\* of 0xee bytes and none of them is left.
C23_Witness ==
    /\ op = "try_into_ctx" /\ arg.type = "AnkiVehicleMsgLightsPattern" /\ res.ok
    /\ res.n = 18 /\ dst[18] = 238
    /\ \A i \in 1..18 : out[i] # 238

\* C24: a destination accepted by an encoder, for a message made by a
\* constructor, by append or by a successful envelope decode, is at most 20
\* bytes long; every size constant is at most 20, and an envelope returned by
\* decode carries at most 18 payload bytes.
C24_AcceptedAtMostMaxSize ==
    /\ \A t \in DOMAIN StaticSize : StaticSize[t] <= ANKI_VEHICLE_MSG_MAX_SIZE
    /\ (op = "try_into_ctx" /\ res.ok) => Len(dst) <= ANKI_VEHICLE_MSG_MAX_SIZE
    /\ (made = "AnkiVehicleMsg::try_from_ctx" /\ obj.type = "AnkiVehicleMsg") =>
           Len(obj.payload) <= ANKI_VEHICLE_MSG_PAYLOAD_MAX_SIZE

\* C24 witness: a decoded envelope with an 18-byte payload has been encoded
\* into a 20-byte destination.
C24_Witness ==
    /\ op = "try_into_ctx" /\ made = "AnkiVehicleMsg::try_from_ctx" /\ res.ok
    /\ Len(arg.payload) = 18 /\ Len(dst) = 20 /\ res.n = 20

\* C26: the envelope decoded from a buffer b of 2..20 bytes, encoded into a
\* destination of the same length, gives b again, except that byte 1 is 0 when
\* b[1] is not an assigned message-type code.
C26_DecodeEncodeReproduces ==
    (/\ op = "try_into_ctx" /\ made = "AnkiVehicleMsg::try_from_ctx"
     /\ Len(dst) = Len(hist)) =>
        /\ Len(hist) >= 2 /\ Len(hist) <= 20
        /\ res.ok /\ res.n = Len(hist)
        /\ out = [hist EXCEPT ![2] = IF hist[2] \in AssignedCodes THEN hist[2] ELSE 0]

\* C26 witness: a 20-byte buffer with tag byte 0xff has been decoded and encoded
\* again; the result differs from it in byte 1 only.
C26_Witness ==
    /\ op = "try_into_ctx" /\ made = "AnkiVehicleMsg::try_from_ctx" /\ res.ok
    /\ Len(hist) = 20 /\ hist[1] = 255 /\ hist[2] = 255 /\ hist[20] = 68
    /\ out = [hist EXCEPT ![2] = 0]

\* C27: a single light configuration is encoded into a destination of 5 to 20
\* bytes and into no other; when accepted, the first 5 bytes are channel,
\* effect, start, end, cycles_per_10_sec, 5 bytes are reported written and the
\* other bytes of the destination are as they were.
C27_LightConfigEncode ==
    (op = "try_into_ctx" /\ arg.type = "AnkiVehicleLightConfig") =>
        IF Len(dst) >= 5 /\ Len(dst) <= 20
        THEN /\ res.ok /\ res.n = 5
             /\ SubSeq(out, 1, 5) = <<LightChannel[arg.config.channel],
                                      LightEffect[arg.config.effect],
                                      arg.config.start, arg.config.end,
                                      arg.config.cycles_per_10_sec>>
             /\ Len(out) = Len(dst)
             /\ \A i \in 6..Len(dst) : out[i] = dst[i]
        ELSE ~res.ok /\ out = dst

\* C27 witness: Tail, Flash, 12, 13, 100 cycles has been written over the first
\* 5 of 20 bytes of 0xee.
C27_Witness ==
    /\ op = "try_into_ctx" /\ arg.type = "AnkiVehicleLightConfig" /\ res.ok
    /\ Len(dst) = 20 /\ dst[1] = 238
    /\ SubSeq(out, 1, 6) = <<1, 3, 12, 13, 100, 238>> /\ out[20] = 238

\* The writer before the slot loop of a pattern encode and after each of its
\* three iterations.
SlotWriters(self, data, e) ==
    LET w0 == WritePatternHeader(self, data, e)
        w1 == WriteSlot(w0, self.channel_config[1], e)
        w2 == WriteSlot(w1, self.channel_config[2], e)
        w3 == WriteSlot(w2, self.channel_config[3], e)
    IN  <<w0, w1, w2, w3>>

\* C28: encoding a lights pattern made by the constructor and any appends into
\* an 18-byte destination never fails: slot k is written at offset 3 + 5k with
\* 15, 10 and 5 bytes remaining, a configuration in the slot passes the nested
\* encoder's length check on those remaining bytes, and each slot advances the
\* offset by exactly 5.
C28_PatternSlotsFit ==
    (/\ op = "try_into_ctx" /\ arg.type = "AnkiVehicleMsgLightsPattern"
     /\ Len(dst) = 18) =>
        LET w == SlotWriters(arg, dst, ctx)
        IN  /\ res.ok /\ res.n = 18 /\ out = w[4].data
            /\ \A k \in 0..2 :
                  LET before == w[k + 1]
                      after == w[k + 2]
                      rest == SubSeq(before.data, before.off + 1, Len(before.data))
                      slot == arg.channel_config[k + 1]
                  IN  /\ before.ok /\ before.off = 3 + 5 * k
                      /\ Len(rest) = 15 - 5 * k
                      /\ slot.some =>
                            AnkiVehicleLightConfig_try_into_ctx(slot.v, rest, ctx).ok
                      /\ after.ok /\ after.off = before.off + 5

\* C28 witness: a pattern with three configurations has been encoded into 18
\* bytes, its last slot at offset 13 with 5 bytes remaining.
C28_Witness ==
    /\ op = "try_into_ctx" /\ arg.type = "AnkiVehicleMsgLightsPattern"
    /\ Len(dst) = 18 /\ res.ok
    /\ arg.channel_count = 3 /\ arg.channel_config[3].some
    /\ SlotWriters(arg, dst, ctx)[3].off = 13

\* C29: configure returns a list whose last element is the little-endian
\* change-lane command for (300, 2500, 0.0); with sdk_mode_on false the list has
\* two elements, the SDK-mode command 03 90 01 01 first; with sdk_mode_on true
\* it has one element and no SDK-mode command.
C29_ConfigureCommands ==
    op = "configure" =>
        /\ ret = 0
        /\ Len(out) >= 1
        /\ out[Len(out)] = <<11, 37, 44, 1, 196, 9, 0, 0, 0, 0, 0, 0>>
        /\ IF arg.sdk_mode_on
           THEN Len(out) = 1 /\ \A i \in 1..Len(out) : out[i] # <<3, 144, 1, 1>>
           ELSE Len(out) = 2 /\ out[1] = <<3, 144, 1, 1>>

\* C29 witness: a vehicle that is not in SDK mode and has processed an update
\* has been configured; two commands were returned.
C29_Witness ==
    /\ op = "configure" /\ ~arg.sdk_mode_on /\ Len(hist) > 0
    /\ Len(out) = 2 /\ out[1] = <<3, 144, 1, 1>> /\ Len(out[2]) = 12

\* The process_* calls whose message carries an offset, and the place in a
\* history of the most recent one (0 when there is none).
OffsetUpdates ==
    { "AnkiVehicleMsgLocalisationPositionUpdate",
      "AnkiVehicleMsgLocalisationTransitionUpdate",
      "AnkiVehicleMsgLocalisationIntersectionUpdate",
      "AnkiVehicleMsgOffsetFromRoadCentreUpdate" }

RECURSIVE LastOffsetUpdate(_)
LastOffsetUpdate(h) ==
    IF h = <<>> THEN 0
    ELSE IF h[Len(h)].type \in OffsetUpdates THEN Len(h)
    ELSE LastOffsetUpdate(SubSeq(h, 1, Len(h) - 1))

\* C30: after any sequence of process_* calls the vehicle's offset is the one
\* carried by the most recent position, transition, intersection or offset
\* update of the sequence; processing a battery-level or a version response
\* changes battery_level, respectively version, and nothing else.
C30_OffsetIsLatestUpdate ==
    /\ [](  (obj.type = "AnkiVehicle" /\ LastOffsetUpdate(hist) > 0) =>
              obj.offset_from_road_centre_mm =
                  hist[LastOffsetUpdate(hist)].offset_from_road_centre_mm )
    /\ [][ /\ op' = "process_battery_level_response" =>
                obj' = [obj EXCEPT !.battery_level = arg'.battery_level]
           /\ op' = "process_version_response" =>
                obj' = [obj EXCEPT !.version = arg'.version] ]_vars

\* C30 witness: a transition update, then an offset update carrying another
\* offset, then a battery-level response have been processed; the vehicle has
\* the offset of the second and the level of the third.
C30_Witness ==
    /\ op = "process_battery_level_response" /\ Len(hist) = 3
    /\ hist[1].type = "AnkiVehicleMsgLocalisationTransitionUpdate"
    /\ hist[2].type = "AnkiVehicleMsgOffsetFromRoadCentreUpdate"
    /\ hist[1].offset_from_road_centre_mm # hist[2].offset_from_road_centre_mm
    /\ obj.offset_from_road_centre_mm = hist[2].offset_from_road_centre_mm
    /\ obj.battery_level = hist[3].battery_level /\ obj.battery_level # 0

====
